---- MODULE Spec2Model ----
(***************************************************************************)
(* The editor engine of visual-html-builder (src/src/VisualHtmlBuilder.ts  *)
(* and src/src/helpers/IframePreviewHelper.ts) as a state machine.         *)
(*                                                                         *)
(* Objects live in a heap: `objects` is the sequence of element objects    *)
(* ever created (a reference is an index into it, 0 is null) and `arrays`  *)
(* holds the JavaScript arrays that `props.items` refer to.  `elements`    *)
(* and `selectedElement` hold references, as the fields of the class do.   *)
(* Property values are written as strings ("1" is the number 1, "false"    *)
(* the boolean); a value that names an array is a key of `arrays`.         *)
(***************************************************************************)
EXTENDS Integers, Sequences, FiniteSets, TLC

VARIABLES objects, arrays, elements, selectedElement, draggedElement,
          elementCounter, clock, previewIframe, previewNodes,
          previewEmptyState, htmlOutput, drag, srcAttached, messages, htmlTemplate,
          typeMaps, thisElementTypes, copyCalls, notifications,
          copied, peerElements, peerSelectedElement, listeners,
          validationErrorEl, op

\* The mapping objects of element types and the reference the builder holds.
registry == <<typeMaps, thisElementTypes>>

\* The copyHTML calls made, the notifications shown and the texts
\* handed to a copy mechanism.
copying == <<copyCalls, notifications, copied>>

\* A second builder mounted on the same page: the ids of its document in
\* order and the id of its selected instance.
peer == <<peerElements, peerSelectedElement>>

vars == <<objects, arrays, elements, selectedElement, draggedElement,
          elementCounter, clock, previewIframe, previewNodes,
          previewEmptyState, htmlOutput, drag, srcAttached, messages, htmlTemplate,
          registry, copying, peer, listeners,
          validationErrorEl, op>>

(***************************************************************************)
(* Bounds of the model.                                                    *)
(***************************************************************************)
MaxAdds == 1
MaxSeed == 1
MaxClock == 1
MaxMessages == 1
MaxItems == 4

Null == 0

(***************************************************************************)
(* Generic helpers on sequences.                                           *)
(***************************************************************************)
Range(s) == {s[i] : i \in DOMAIN s}

RemoveAt(s, i) == SubSeq(s, 1, i - 1) \o SubSeq(s, i + 1, Len(s))

InsertAt(s, i, x) == SubSeq(s, 1, i - 1) \o <<x>> \o SubSeq(s, i, Len(s))

\* The least index of a set of indices, 0 when there is none.
FirstIndex(S) == IF S = {} THEN 0 ELSE CHOOSE i \in S : \A j \in S : i <= j

SeqsUpTo(S, n) == UNION {[1..k -> S] : k \in 0..n}

InjectiveSeqs(S, n) ==
  {s \in SeqsUpTo(S, n) : \A i, j \in DOMAIN s : i # j => s[i] # s[j]}

(***************************************************************************)
(* The block type registry.                                                *)
(***************************************************************************)
DefaultItemsRef == "#defaultItems"

DefaultItems == <<"Item 1", "Item 2", "Item 3">>

getAllElementTypes ==
  [title |-> [name |-> "Title",
              defaultProps |-> [text |-> "New Title", level |-> "1"]],
   text  |-> [name |-> "Text",
              defaultProps |-> [content |-> "Enter your text here..."]],
   image |-> [name |-> "Image",
              defaultProps |-> [src |-> "https://raw.githubusercontent.com/naoki85/visual-html-builder/refs/heads/main/src/typescript.svg",
                                alt |-> "Sample image",
                                width |-> "undefined",
                                height |-> "undefined"]],
   list  |-> [name |-> "List",
              defaultProps |-> [items |-> DefaultItemsRef, ordered |-> "false"]]]

elementTypes == getAllElementTypes

\* Property names every plain object inherits from Object.prototype: the
\* lookup elementTypes[type] finds them although they are not registered.
InheritedKeys == {"constructor"}

\* elementTypes[type] is truthy
TypeLookupTruthy(type) == type \in DOMAIN elementTypes \/ type \in InheritedKeys

\* { ...elementTypes[type].defaultProps }: a shallow copy, own keys only; the
\* spread of undefined is the empty object.
SpreadDefaultProps(type) ==
  IF type \in DOMAIN elementTypes THEN elementTypes[type].defaultProps
  ELSE [k \in {} |-> ""]

(***************************************************************************)
(* Initial content handed to the constructor: at most MaxSeed instances    *)
(* with ids chosen by the host.                                            *)
(***************************************************************************)
SeedIds == {2, 3}

SeedTypes == {"title"}

ArrayRefs == {DefaultItemsRef}

SeedProps == [text |-> "Test Title", level |-> "1"]

SeedContents ==
  {[i \in DOMAIN ids |-> [id |-> ids[i], type |-> types[i],
                          props |-> SeedProps]] :
     <<ids, types>> \in {<<a, b>> \in InjectiveSeqs(SeedIds, MaxSeed)
                                       \X SeqsUpTo(SeedTypes, MaxSeed) :
                           Len(a) = Len(b)}}

\* Inputs of the public operations.
IdInputs == 1..(MaxClock + MaxAdds + 1)

TypeInputs == {"title", "non-existent-type"}

ListTypeInputs == {"title", "list"}

PropertyKeys == {"text"}

PropertyValues == {""}

ListItemValues == {""}

PointerYs == {10, 60, 130, 200}

MaxSetElements == 2

(***************************************************************************)
(* Reading the heap.                                                       *)
(***************************************************************************)
\* find searching every instance ever created instead of this.elements
findInHeap(E, objs, elementId) ==
  FirstIndex({k \in DOMAIN objs : objs[k].id = elementId})

\* this.elements.find(el => el.id === elementId) || null
find(E, objs, elementId) ==
  LET i == FirstIndex({k \in DOMAIN E : objs[E[k]].id = elementId})
  IN IF i = 0 THEN Null ELSE E[i]

IdsOf(E, objs) == [i \in DOMAIN E |-> objs[E[i]].id]

DocIds == IdsOf(elements, objects)

PreviewIds == [i \in DOMAIN previewNodes |-> previewNodes[i].id]

\* The record of the last operation performed: what was called, with which
\* arguments, whether the call threw, and whether an instance of the document
\* carried the id argument when the call was made.
Op(name, threw, key, id, order) ==
  [name |-> name, threw |-> threw, key |-> key, id |-> id, order |-> order,
   present |-> \E i \in DOMAIN elements : objects[elements[i]].id = id]

\* props with every array reference replaced by the array's content
PropsValue(props, arrs) ==
  [k \in DOMAIN props |->
     IF props[k] \in DOMAIN arrs THEN <<"array", arrs[props[k]]>>
     ELSE <<"scalar", props[k]>>]

PropOr(props, key, default) ==
  IF key \in DOMAIN props THEN props[key] ELSE default

\* The values whose trim() is the empty string.
Blank == {"", " "}

\* new URL(string) accepts the absolute URLs among the property values.
isValidUrl(string) ==
  string \in {getAllElementTypes.image.defaultProps.src}

validateTitle(props) ==
  IF PropOr(props, "text", "") \in Blank THEN <<"Title cannot be empty">>
  ELSE <<>>

validateText(props) ==
  IF PropOr(props, "content", "") \in Blank
  THEN <<"Text content cannot be empty">>
  ELSE <<>>

validateImage(props) ==
  IF PropOr(props, "src", "") \in Blank THEN <<"Image URL is required">>
  ELSE IF ~isValidUrl(props.src) THEN <<"Please enter a valid URL">>
  ELSE <<>>

validateList(props, arrs) ==
  LET validItems == IF PropOr(props, "items", "") \in DOMAIN arrs
                    THEN arrs[props.items] ELSE <<>>
  IN IF Len(validItems) = 0 THEN <<"List must have at least one item">>
     ELSE IF \E i \in DOMAIN validItems : validItems[i] \in Blank
     THEN <<"List items cannot be empty">>
     ELSE <<>>

\* elementType?.validate(element.props): the empty sequence is null, a
\* message is the sequence holding it.
validate(element, arrs) ==
  CASE element.type = "title" -> validateTitle(element.props)
    [] element.type = "text" -> validateText(element.props)
    [] element.type = "image" -> validateImage(element.props)
    [] element.type = "list" -> validateList(element.props, arrs)
    [] OTHER -> <<>>

\* updatePropertiesPanel(): the panel is rewritten for the selection.  The
\* variable is the text of the .validation-error element of the panel, the
\* empty sequence when the panel has none.  With no descriptor for the type
\* of the selection the method leaves the panel as it was.
updatePropertiesPanel(selected, objs, arrs) ==
  validationErrorEl' =
    IF selected = Null THEN <<>>
    ELSE IF objs[selected].type \notin DOMAIN elementTypes
    THEN validationErrorEl
    ELSE validate(objs[selected], arrs)

\* updateValidationDisplay that never removes the message
updateValidationDisplayKeeping(previousProps) ==
  validationErrorEl' =
    IF objects'[selectedElement].type \notin DOMAIN elementTypes
    THEN validationErrorEl
    ELSE LET currentValidation == validate(objects'[selectedElement], arrays)
             previousValidation ==
               validate([objects'[selectedElement] EXCEPT
                           !.props = previousProps], arrays)
         IN IF currentValidation # previousValidation
            THEN IF currentValidation # <<>> THEN currentValidation
                 ELSE validationErrorEl
            ELSE validationErrorEl

\* updateValidationDisplay(previousProps), called with a selection: the
\* message is touched only when validate gives another result for the
\* current props than for the previous ones; then it is set or appended
\* (a message) or removed (null).
updateValidationDisplay(previousProps) ==
  validationErrorEl' =
    IF objects'[selectedElement].type \notin DOMAIN elementTypes
    THEN validationErrorEl
    ELSE LET currentValidation == validate(objects'[selectedElement], arrays)
             previousValidation ==
               validate([objects'[selectedElement] EXCEPT
                           !.props = previousProps], arrays)
         IN IF currentValidation # previousValidation
            THEN IF currentValidation # <<>> THEN currentValidation
                 ELSE <<>>
            ELSE validationErrorEl

(***************************************************************************)
(* The preview surface.                                                    *)
(***************************************************************************)
\* elementType?.validate(...) / elementType?.render(...): the optional chain
\* guards only an undefined elementType; an inherited member of
\* Object.prototype is truthy and has no validate function, so the call throws.
RenderThrows(E, objs) == \E i \in DOMAIN E : objs[E[i]].type \in InheritedKeys

Wrappers(E, objs) ==
  [i \in DOMAIN E |-> [id |-> objs[E[i]].id, dragging |-> FALSE]]

\* updateHTMLOutput(): htmlOutput.value = this.generateFullHTML().  The
\* variable keeps what the text was generated from; the text itself is
\* HtmlOutputValue.
updateHTMLOutput ==
  htmlOutput' = [written |-> TRUE, elements |-> elements',
                 objects |-> objects', arrays |-> arrays',
                 htmlTemplate |-> htmlTemplate']

\* updatePreview() adding the new markup to the old content
updatePreviewAppending ==
  /\ previewIframe' = TRUE
  /\ previewNodes' = previewNodes \o Wrappers(elements', objects')
  /\ previewEmptyState' = (Len(elements') = 0)
  /\ srcAttached' = FALSE
  /\ updateHTMLOutput

\* updatePreview(): updateIframePreview creates the iframe on first use and
\* replaces the whole content of .preview-content, then updateHTMLOutput
\* writes the HTML panel.  Reads the new elements, objects and arrays.
updatePreview ==
  /\ previewIframe' = TRUE
  /\ IF RenderThrows(elements', objects')
     THEN UNCHANGED <<previewNodes, previewEmptyState, htmlOutput, srcAttached>>
     ELSE /\ previewNodes' = Wrappers(elements', objects')
          /\ previewEmptyState' = (Len(elements') = 0)
          /\ srcAttached' = FALSE
          /\ updateHTMLOutput

(***************************************************************************)
(* HTMLTemplateHelper (src/unnamed/part_001).  A plain object with string  *)
(* keys is the sequence of its entries in insertion order; the value of an *)
(* entry is a string, true, false or undefined.  An optional field of a    *)
(* template is a record saying whether it is present.                      *)
(***************************************************************************)
Str(text) == [kind |-> "string", text |-> text]

True == [kind |-> "true", text |-> <<>>]

False == [kind |-> "false", text |-> <<>>]

Entry(key, value) == [key |-> key, value |-> value]

Some(value) == [present |-> TRUE, value |-> value]

None == [present |-> FALSE, value |-> <<>>]

\* A field left out, or given one of the values.
Optional(values) == {None} \cup {Some(v) : v \in values}

getDefaultTemplate ==
  [doctype |-> Some(<<"<!DOCTYPE html>">>),
   htmlAttributes |-> Some(<<Entry("lang", Str(<<"en">>))>>),
   head |-> Some([title |-> Some(<<"Generated HTML">>),
                  meta |-> Some(<<
                    <<Entry("charset", Str(<<"UTF-8">>))>>,
                    <<Entry("name", Str(<<"viewport">>)),
                      Entry("content",
                            Str(<<"width=device-width, initial-scale=1.0">>))>> >>),
                  links |-> Some(<<>>),
                  scripts |-> Some(<<>>),
                  customHead |-> Some(<<>>)]),
   bodyAttributes |-> Some(<<>>)]

\* new VisualHtmlBuilder(options): options.htmlTemplate || getDefaultTemplate()
constructor(options) ==
  /\ \E seed \in SeedContents :
       /\ objects = seed
       /\ elements = [i \in DOMAIN seed |-> i]
  /\ arrays = [r \in ArrayRefs |-> DefaultItems]
  /\ selectedElement = Null
  /\ draggedElement = Null
  /\ elementCounter = 0
  /\ clock = 0
  /\ previewIframe = FALSE
  /\ previewNodes = <<>>
  /\ previewEmptyState = FALSE
  /\ htmlOutput = [written |-> FALSE, elements |-> <<>>, objects |-> <<>>,
                   arrays |-> [r \in ArrayRefs |-> DefaultItems],
                   htmlTemplate |-> getDefaultTemplate]
  /\ drag = "idle"
  /\ srcAttached = FALSE
  /\ messages = <<>>
  /\ htmlTemplate = IF options.htmlTemplate.present
                    THEN options.htmlTemplate.value ELSE getDefaultTemplate
  /\ typeMaps = <<getAllElementTypes>>
  /\ thisElementTypes = 1
  /\ copyCalls = <<>>
  /\ notifications = <<>>
  /\ copied = <<>>
  /\ peerElements = <<>>
  /\ peerSelectedElement = Null
  /\ listeners = [button |-> 0, tab |-> 0, copy |-> 0]
  /\ validationErrorEl = <<>>
  /\ op = Op("new", FALSE, "", 0, <<>>)

\* The builder constructed without the htmlTemplate option.
Init == constructor([htmlTemplate |-> None])

\* The click listeners counted up to this number.
MaxListeners == 2

\* render() writes the element buttons anew, then attachEventListeners()
\* adds one click listener to each element button, to each tab button and
\* to the Copy HTML button.
attachEventListeners ==
  listeners' = [button |-> 1,
                tab |-> IF listeners.tab < MaxListeners
                        THEN listeners.tab + 1 ELSE MaxListeners,
                copy |-> IF listeners.copy < MaxListeners
                         THEN listeners.copy + 1 ELSE MaxListeners]

(***************************************************************************)
(* The facade operations.                                                  *)
(***************************************************************************)
render ==
  /\ attachEventListeners
  /\ IF Len(elements) > 0
     THEN /\ UNCHANGED <<elements, objects>>
          /\ UNCHANGED <<arrays, htmlTemplate>>
          /\ updatePreview
     ELSE UNCHANGED <<elements, objects, previewIframe, previewNodes,
                      previewEmptyState, htmlOutput, srcAttached>>
  /\ op' = Op("render", Len(elements) > 0 /\ RenderThrows(elements, objects),
              "", 0, <<>>)
  /\ UNCHANGED <<arrays, selectedElement, draggedElement, elementCounter,
                 clock, drag, messages,
                 htmlTemplate, registry, copying, peer, validationErrorEl>>

addElement(type) ==
  IF ~TypeLookupTruthy(type)
  THEN /\ op' = Op("addElement", TRUE, type, 0, <<>>)
       /\ UNCHANGED <<objects, arrays, elements, selectedElement,
                      draggedElement, elementCounter, clock, previewIframe,
                      previewNodes, previewEmptyState, htmlOutput, drag, srcAttached,
                      messages,
                 htmlTemplate, registry, copying, peer, listeners, validationErrorEl>>
  ELSE /\ elementCounter < MaxAdds
       /\ \E now \in clock..MaxClock :
            LET id == now + (elementCounter + 1)
                element == [id |-> id, type |-> type,
                            props |-> SpreadDefaultProps(type)]
            IN /\ clock' = now
               /\ elementCounter' = elementCounter + 1
               /\ objects' = Append(objects, element)
               /\ elements' = Append(elements, Len(objects) + 1)
               /\ UNCHANGED <<arrays, htmlTemplate>>
               /\ updatePreview
               /\ IF RenderThrows(elements', objects')
                  THEN /\ UNCHANGED <<selectedElement, validationErrorEl>>
                       /\ op' = Op("addElement", TRUE, type, id, <<>>)
                  ELSE /\ selectedElement' = find(elements', objects', id)
                       /\ updatePropertiesPanel(selectedElement', objects',
                                                arrays)
                       /\ op' = Op("addElement", FALSE, type, id, <<>>)
       /\ UNCHANGED <<arrays, draggedElement, drag, messages,
                 htmlTemplate, registry, copying, peer, listeners>>

selectElement(elementId) ==
  /\ selectedElement' = find(elements, objects, elementId)
  /\ updatePropertiesPanel(selectedElement', objects, arrays)
  /\ op' = Op("selectElement",
              selectedElement' # Null
                /\ objects[selectedElement'].type \in InheritedKeys,
              "", elementId, <<>>)
  /\ UNCHANGED <<objects, arrays, elements, draggedElement, elementCounter,
                 clock, previewIframe, previewNodes, previewEmptyState, htmlOutput, drag,
                 srcAttached, messages,
                 htmlTemplate, registry, copying, peer, listeners>>

\* props = { [key]: value }: the assignment replacing the whole property bag
SetPropReplacing(props, key, value) == [k \in {key} |-> value]

\* props[key] = value on a property bag
SetProp(props, key, value) ==
  [k \in DOMAIN props \cup {key} |-> IF k = key THEN value ELSE props[k]]

updateProperty(key, value) ==
  /\ IF selectedElement = Null
     THEN UNCHANGED <<objects, elements, previewIframe, previewNodes,
                      previewEmptyState, htmlOutput, srcAttached,
                      validationErrorEl>>
     ELSE /\ objects' = [objects EXCEPT ![selectedElement].props =
                                          SetProp(@, key, value)]
          /\ UNCHANGED elements
          /\ UNCHANGED <<arrays, htmlTemplate>>
          /\ updatePreview
          /\ IF RenderThrows(elements, objects)
             THEN UNCHANGED validationErrorEl
             ELSE updateValidationDisplay(objects[selectedElement].props)
  /\ op' = Op("updateProperty",
              selectedElement # Null /\ RenderThrows(elements, objects),
              key, 0, <<>>)
  /\ UNCHANGED <<arrays, selectedElement, draggedElement, elementCounter,
                 clock, drag, messages,
                 htmlTemplate, registry, copying, peer, listeners>>

\* this.elements.splice(elementId - 1, 1): the id taken for a position
deleteFilterByPosition(E, objs, elementId) ==
  IF elementId \in DOMAIN E THEN RemoveAt(E, elementId) ELSE E

\* this.elements.filter(el => el.id !== elementId), with the filter inverted
deleteFilterInverted(E, objs, elementId) ==
  SelectSeq(E, LAMBDA r : objs[r].id = elementId)

\* this.elements.filter(el => el.id !== elementId)
deleteFilter(E, objs, elementId) ==
  SelectSeq(E, LAMBDA r : objs[r].id # elementId)

\* deleteElement without the reset of the selection
selectionAfterDeleteKept(selected, objs, elementId) == selected

\* if (this.selectedElement && this.selectedElement.id === elementId) ... = null
selectionAfterDelete(selected, objs, elementId) ==
  IF selected # Null /\ objs[selected].id = elementId THEN Null ELSE selected

\* The part of deleteElement shared by the direct call and the message path.
deleteElementBody(elementId) ==
  /\ elements' = deleteFilter(elements, objects, elementId)
  /\ selectedElement' = selectionAfterDelete(selectedElement, objects, elementId)
  /\ UNCHANGED objects
  /\ UNCHANGED <<arrays, htmlTemplate>>
  /\ updatePreview
  /\ IF RenderThrows(elements', objects)
     THEN UNCHANGED validationErrorEl
     ELSE updatePropertiesPanel(selectedElement', objects, arrays)
  /\ UNCHANGED <<arrays, draggedElement, elementCounter, clock, drag,
                 htmlTemplate, registry, copying, listeners>>

deleteElement(elementId) ==
  /\ deleteElementBody(elementId)
  /\ op' = Op("deleteElement", RenderThrows(elements', objects), "",
              elementId, <<>>)
  /\ UNCHANGED <<messages, peer>>

setElements(newElements) ==
  /\ elements' = newElements
  /\ selectedElement' = Null
  /\ UNCHANGED objects
  /\ UNCHANGED <<arrays, htmlTemplate>>
  /\ updatePreview
  /\ IF RenderThrows(elements', objects)
     THEN UNCHANGED validationErrorEl
     ELSE updatePropertiesPanel(selectedElement', objects, arrays)
  /\ op' = Op("setElements", RenderThrows(elements', objects), "", 0, <<>>)
  /\ UNCHANGED <<arrays, draggedElement, elementCounter, clock, drag,
                 messages,
                 htmlTemplate, registry, copying, peer, listeners>>

\* List-specific methods: they act on the array props.items refers to.
updateListItem(index, value) ==
  /\ UNCHANGED <<objects, elements>>
  /\ IF selectedElement = Null \/ objects[selectedElement].type # "list"
     THEN UNCHANGED <<arrays, previewIframe, previewNodes, previewEmptyState, htmlOutput,
                      srcAttached, validationErrorEl>>
     ELSE /\ index < Len(arrays[objects[selectedElement].props.items])
          /\ arrays' = [arrays EXCEPT
                          ![objects[selectedElement].props.items][index + 1] =
                            value]
          /\ UNCHANGED htmlTemplate
          /\ updatePreview
          /\ IF RenderThrows(elements, objects)
             THEN UNCHANGED validationErrorEl
             ELSE updatePropertiesPanel(selectedElement, objects, arrays')
  /\ op' = Op("updateListItem", FALSE, "", index, <<>>)
  /\ UNCHANGED <<selectedElement, draggedElement, elementCounter, clock,
                 drag, messages,
                 htmlTemplate, registry, copying, peer, listeners>>

addListItem ==
  /\ UNCHANGED <<objects, elements>>
  /\ IF selectedElement = Null \/ objects[selectedElement].type # "list"
     THEN UNCHANGED <<arrays, previewIframe, previewNodes, previewEmptyState, htmlOutput,
                      srcAttached, validationErrorEl>>
     ELSE /\ Len(arrays[objects[selectedElement].props.items]) < MaxItems
          /\ arrays' = [arrays EXCEPT
                          ![objects[selectedElement].props.items] =
                            Append(@, "New item")]
          /\ UNCHANGED htmlTemplate
          /\ updatePreview
          /\ IF RenderThrows(elements, objects)
             THEN UNCHANGED validationErrorEl
             ELSE updatePropertiesPanel(selectedElement, objects, arrays')
  /\ op' = Op("addListItem", FALSE, "", 0, <<>>)
  /\ UNCHANGED <<selectedElement, draggedElement, elementCounter, clock,
                 drag, messages,
                 htmlTemplate, registry, copying, peer, listeners>>

removeListItem(index) ==
  /\ UNCHANGED <<objects, elements>>
  /\ IF selectedElement = Null \/ objects[selectedElement].type # "list"
     THEN UNCHANGED <<arrays, previewIframe, previewNodes, previewEmptyState, htmlOutput,
                      srcAttached, validationErrorEl>>
     ELSE /\ index < Len(arrays[objects[selectedElement].props.items])
          /\ arrays' = [arrays EXCEPT
                          ![objects[selectedElement].props.items] =
                            RemoveAt(@, index + 1)]
          /\ UNCHANGED htmlTemplate
          /\ updatePreview
          /\ IF RenderThrows(elements, objects)
             THEN UNCHANGED validationErrorEl
             ELSE updatePropertiesPanel(selectedElement, objects, arrays')
  /\ op' = Op("removeListItem", FALSE, "", index, <<>>)
  /\ UNCHANGED <<selectedElement, draggedElement, elementCounter, clock,
                 drag, messages,
                 htmlTemplate, registry, copying, peer, listeners>>

(***************************************************************************)
(* The delete control of the preview and the message channel.              *)
(***************************************************************************)
\* A click on the delete button of the i-th wrapper posts a message.
clickDelete(i) ==
  /\ previewIframe
  /\ drag = "idle"
  /\ i \in DOMAIN previewNodes
  /\ Len(messages) < MaxMessages
  /\ messages' = Append(messages, previewNodes[i].id)
  /\ op' = Op("clickDelete", FALSE, "", previewNodes[i].id, <<>>)
  /\ UNCHANGED <<objects, arrays, elements, selectedElement, draggedElement,
                 elementCounter, clock, previewIframe, previewNodes,
                 previewEmptyState, htmlOutput, drag, srcAttached,
                 htmlTemplate, registry, copying, peer, listeners, validationErrorEl>>

\* A message listener that consumes the message without calling deleteElement
deliverMessageIgnored ==
  /\ messages # <<>>
  /\ messages' = Tail(messages)
  /\ op' = Op("deleteMessage", FALSE, "", Head(messages), <<>>)
  /\ UNCHANGED <<objects, arrays, elements, selectedElement, draggedElement,
                 elementCounter, clock, previewIframe, previewNodes,
                 previewEmptyState, htmlOutput, drag, srcAttached,
                 htmlTemplate, registry, copying, peer, listeners, validationErrorEl>>

\* The second builder's message listener keeping its document
peerDeleteElementIgnored(elementId) == UNCHANGED peer

\* The second builder's deleteElement(elementId)
peerDeleteElement(elementId) ==
  /\ peerElements' = SelectSeq(peerElements, LAMBDA id : id # elementId)
  /\ peerSelectedElement' = IF peerSelectedElement = elementId THEN Null
                            ELSE peerSelectedElement

\* The oldest pending message event is dispatched to the message listeners
\* of the window: the one of this builder and the one of the second.
deliverMessage ==
  /\ messages # <<>>
  /\ deleteElementBody(Head(messages))
  /\ peerDeleteElement(Head(messages))
  /\ messages' = Tail(messages)
  /\ op' = Op("deleteMessage", RenderThrows(elements', objects), "",
              Head(messages), <<>>)

(***************************************************************************)
(* Drag and drop inside the preview.                                       *)
(***************************************************************************)
\* Layout of the wrappers: stacked, one slot each (getBoundingClientRect).
ElementHeight == 50

ElementPitch == 70

BoxTop(i) == (i - 1) * ElementPitch

\* getDragAfterElementInIframe: the index of the anchor wrapper, 0 for none.
\* Offsets are kept doubled (2 * (y - top - height / 2)) to stay integral.
RECURSIVE DragAfterReduce(_, _, _, _)
DragAfterReduce(nodes, y, i, closest) ==
  IF i > Len(nodes) THEN closest.element
  ELSE IF nodes[i].dragging THEN DragAfterReduce(nodes, y, i + 1, closest)
  ELSE LET offset == 2 * (y - BoxTop(i)) - ElementHeight
       IN IF offset < 0 /\ (closest.element = 0 \/ offset > closest.offset)
          THEN DragAfterReduce(nodes, y, i + 1,
                               [offset |-> offset, element |-> i])
          ELSE DragAfterReduce(nodes, y, i + 1, closest)

\* querySelectorAll('.preview-element') without :not(.dragging)
getDragAfterIncludingDragged(nodes, y) ==
  DragAfterReduce([i \in DOMAIN nodes |-> [nodes[i] EXCEPT !.dragging = FALSE]],
                  y, 1, [offset |-> 0, element |-> 0])

getDragAfterElementInIframe(nodes, y) ==
  DragAfterReduce(nodes, y, 1, [offset |-> 0, element |-> 0])

\* The dragover handler: moves the wrapper carrying the dragging class.
DragOverNodes(nodes, y) ==
  LET afterElement == getDragAfterElementInIframe(nodes, y)
      draggedEl == FirstIndex({k \in DOMAIN nodes : nodes[k].dragging})
  IN IF draggedEl = 0 THEN nodes
     ELSE IF afterElement = 0
          THEN Append(RemoveAt(nodes, draggedEl), nodes[draggedEl])
          ELSE InsertAt(RemoveAt(nodes, draggedEl),
                        IF draggedEl < afterElement THEN afterElement - 1
                        ELSE afterElement,
                        nodes[draggedEl])

dragstart(i) ==
  /\ previewIframe
  /\ drag = "idle"
  /\ i \in DOMAIN previewNodes
  /\ previewNodes' = [previewNodes EXCEPT ![i].dragging = TRUE]
  /\ draggedElement' = previewNodes[i].id
  /\ drag' = "dragging"
  /\ srcAttached' = TRUE
  /\ op' = Op("dragstart", FALSE, "", previewNodes[i].id, <<>>)
  /\ UNCHANGED <<objects, arrays, elements, selectedElement, elementCounter,
                 clock, previewIframe, previewEmptyState, htmlOutput, messages,
                 htmlTemplate, registry, copying, peer, listeners, validationErrorEl>>

dragover(y) ==
  /\ drag = "dragging"
  /\ previewNodes' = DragOverNodes(previewNodes, y)
  /\ op' = Op("dragover", FALSE, "", 0, <<>>)
  /\ UNCHANGED <<objects, arrays, elements, selectedElement, draggedElement,
                 elementCounter, clock, previewIframe, previewEmptyState, htmlOutput,
                 drag, srcAttached, messages,
                 htmlTemplate, registry, copying, peer, listeners, validationErrorEl>>

\* The dragend event is dispatched at the source wrapper; it reaches the
\* listener on the iframe document only while that wrapper is attached.
dragend ==
  /\ drag # "idle"
  /\ IF srcAttached
     THEN /\ previewNodes' = [i \in DOMAIN previewNodes |->
                               [previewNodes[i] EXCEPT !.dragging = FALSE]]
          /\ draggedElement' = Null
     ELSE UNCHANGED <<previewNodes, draggedElement>>
  /\ drag' = "idle"
  /\ srcAttached' = FALSE
  /\ op' = Op("dragend", FALSE, "", 0, <<>>)
  /\ UNCHANGED <<objects, arrays, elements, selectedElement, elementCounter,
                 clock, previewIframe, previewEmptyState, htmlOutput, messages,
                 htmlTemplate, registry, copying, peer, listeners, validationErrorEl>>

\* onDrop leaving the array as it was
onDropElementsIgnored(E, objs, newOrder) == E

\* onDrop keeping the old array when some id is not found
onDropElementsStrict(E, objs, newOrder) ==
  IF \E i \in DOMAIN newOrder : find(E, objs, newOrder[i]) = Null THEN E
  ELSE [i \in DOMAIN newOrder |-> find(E, objs, newOrder[i])]

\* onDrop sorting the found elements by creation instead of by newOrder
onDropElementsUnordered(E, objs, newOrder) ==
  SelectSeq(E, LAMBDA r : \E i \in DOMAIN newOrder : objs[r].id = newOrder[i])

\* The onDrop callback's new element array.
onDropElements(E, objs, newOrder) ==
  SelectSeq([i \in DOMAIN newOrder |-> find(E, objs, newOrder[i])],
            LAMBDA r : r # Null)

onDrop(newOrder) ==
  /\ elements' = onDropElements(elements, objects, newOrder)
  /\ UNCHANGED selectedElement
  /\ UNCHANGED objects
  /\ UNCHANGED <<arrays, htmlTemplate>>
  /\ updatePreview
  /\ UNCHANGED <<arrays, draggedElement, elementCounter,
                 clock, messages,
                 htmlTemplate, registry, copying, peer, listeners, validationErrorEl>>

\* The drop handler reads the order of the wrappers and calls onDrop.
drop ==
  /\ drag = "dragging"
  /\ onDrop(PreviewIds)
  /\ drag' = "dropped"
  /\ op' = Op("drop", RenderThrows(elements', objects), "", 0, <<>>)

Next ==
  \/ render
  \/ \E type \in TypeInputs : addElement(type)
  \/ \E elementId \in IdInputs : selectElement(elementId)
  \/ \E key \in PropertyKeys, value \in PropertyValues :
       updateProperty(key, value)
  \/ \E elementId \in IdInputs : deleteElement(elementId)
  \/ \E s \in InjectiveSeqs(1..Len(objects), MaxSetElements) : setElements(s)
  \/ \E i \in 1..(MaxSeed + MaxAdds) : clickDelete(i)
  \/ deliverMessage
  \/ \E i \in 1..(MaxSeed + MaxAdds) : dragstart(i)
  \/ \E y \in PointerYs : dragover(y)
  \/ drop
  \/ dragend

Spec == Init /\ [][Next]_vars

\* The same machine with the event loop's guarantee that a posted message
\* event is dispatched to the window's listener.
SpecDelivery == Init /\ [][Next]_vars /\ WF_vars(deliverMessage)

\* The facade with the list-item editing methods, without preview gestures.
NextList ==
  \/ \E type \in ListTypeInputs : addElement(type)
  \/ \E elementId \in IdInputs : selectElement(elementId)
  \/ \E key \in PropertyKeys, value \in PropertyValues :
       updateProperty(key, value)
  \/ \E elementId \in IdInputs : deleteElement(elementId)
  \/ \E index \in 0..(MaxItems - 1), value \in ListItemValues :
       updateListItem(index, value)
  \/ addListItem
  \/ \E index \in 0..(MaxItems - 1) : removeListItem(index)

SpecList == Init /\ [][NextList]_vars

\* The facade with inherited property names among the type keys.
NextInherited ==
  \/ Next
  \/ \E type \in InheritedKeys : addElement(type)

SpecInherited == Init /\ [][NextInherited]_vars

\* The onDrop callback applied to any id sequence.
ReorderInputs == SeqsUpTo(IdInputs, MaxSeed + MaxAdds)

reorder(newOrder) ==
  /\ previewIframe
  /\ onDrop(newOrder)
  /\ op' = Op("onDrop", RenderThrows(elements', objects), "", 0, newOrder)
  /\ UNCHANGED drag

NextReorder ==
  \/ render
  \/ \E type \in TypeInputs : addElement(type)
  \/ \E elementId \in IdInputs : selectElement(elementId)
  \/ \E key \in PropertyKeys, value \in PropertyValues :
       updateProperty(key, value)
  \/ \E newOrder \in ReorderInputs : reorder(newOrder)

SpecReorder == Init /\ [][NextReorder]_vars

(***************************************************************************)
(* getDragAfterElement as a function of the pointer and of the geometry of *)
(* the wrappers (DragDropHelper and IframePreviewHelper hold the same      *)
(* reduction).  A box is what getBoundingClientRect gives of a wrapper,    *)
(* with the wrapper's dragging class; the result is the index of the       *)
(* anchor among all wrappers, 0 for null.                                  *)
(***************************************************************************)
MaxCandidates == 3

BoxTops == {0, 70, 140}

BoxHeights == {50, 20}

Boxes == [top : BoxTops, height : BoxHeights, dragging : BOOLEAN]

BoxInputs == SeqsUpTo(Boxes, MaxCandidates)

\* Pointer positions: those of the tests, and the midpoints of the boxes.
ProbeYs == PointerYs \cup {25, 95, 165}

\* 2 * (y - box.top - box.height / 2)
Offset2(box, y) == 2 * (y - box.top) - box.height

\* offset < 0 || offset > closest.offset: without the sign condition
closerIgnoringSign(offset, closest) ==
  closest.element = 0 \/ offset > closest.offset

\* offset < 0 && offset >= closest.offset: the later of two equal offsets wins
closerOrEqual(offset, closest) ==
  offset < 0 /\ (closest.element = 0 \/ offset >= closest.offset)

\* offset < 0 && offset > closest.offset, closest.offset being -Infinity
\* while no element was taken
closer(offset, closest) ==
  offset < 0 /\ (closest.element = 0 \/ offset > closest.offset)

RECURSIVE reduceClosest(_, _, _, _)
reduceClosest(boxes, y, i, closest) ==
  IF i > Len(boxes) THEN closest.element
  ELSE IF boxes[i].dragging THEN reduceClosest(boxes, y, i + 1, closest)
  ELSE IF closer(Offset2(boxes[i], y), closest)
       THEN reduceClosest(boxes, y, i + 1,
                          [offset |-> Offset2(boxes[i], y), element |-> i])
       ELSE reduceClosest(boxes, y, i + 1, closest)

getDragAfterElement(boxes, y) ==
  reduceClosest(boxes, y, 1, [offset |-> 0, element |-> 0])

\* One call of getDragAfterElement on a new page, with its arguments and its
\* result.
callGetDragAfterElement(boxes, y) ==
  /\ op.name = "new"
  /\ op' = [name |-> "getDragAfterElement", boxes |-> boxes, y |-> y,
            result |-> getDragAfterElement(boxes, y)]
  /\ UNCHANGED <<objects, arrays, elements, selectedElement, draggedElement,
                 elementCounter, clock, previewIframe, previewNodes,
                 previewEmptyState, htmlOutput, drag, srcAttached, messages,
                 htmlTemplate, registry, copying, peer, listeners, validationErrorEl>>

NextDragAfter ==
  \E boxes \in BoxInputs, y \in ProbeYs : callGetDragAfterElement(boxes, y)

SpecDragAfter == Init /\ [][NextDragAfter]_vars

(***************************************************************************)
(* The exported body.  A string is a sequence of tokens (pieces of text     *)
(* that are never split); the empty string is the empty sequence.  The     *)
(* value of a property is one token.                                       *)
(***************************************************************************)
RECURSIVE Flatten(_)
Flatten(ss) == IF ss = <<>> THEN <<>> ELSE Head(ss) \o Flatten(Tail(ss))

\* Array.prototype.join(sep) of strings
RECURSIVE Join(_, _)
Join(ss, sep) ==
  IF ss = <<>> THEN <<>>
  ELSE IF Len(ss) = 1 THEN ss[1]
  ELSE ss[1] \o sep \o Join(Tail(ss), sep)

\* String.prototype.split('\n'): the parts between newline characters.
RECURSIVE SplitLines(_, _)
SplitLines(tokens, line) ==
  IF tokens = <<>> THEN <<line>>
  ELSE IF Head(tokens) = "\n" THEN <<line>> \o SplitLines(Tail(tokens), <<>>)
  ELSE SplitLines(Tail(tokens), Append(line, Head(tokens)))

\* The tags whose occurrences in the exported document are counted.
StructuralTags == {"<html", "<head>", "</head>", "<body", "</body>"}

\* escapeHtml returning its argument
escapeTokenRaw(t) == t

\* div.textContent = text; div.innerHTML: & < > become entities.
escapeToken(t) ==
  CASE t = "&" -> "&amp;"
    [] t = "<" -> "&lt;"
    [] t = ">" -> "&gt;"
    [] t = "<html" -> "&lt;html"
    [] t = "<head>" -> "&lt;head&gt;"
    [] t = "</head>" -> "&lt;/head&gt;"
    [] t = "<body" -> "&lt;body"
    [] t = "</body>" -> "&lt;/body&gt;"
    [] OTHER -> t

escapeHtml(text) == [i \in DOMAIN text |-> escapeToken(text[i])]

renderTitle(props) ==
  LET level == IF PropOr(props, "level", "1") \in {"1", "2", "3", "4", "5", "6"}
               THEN props.level ELSE "1"
  IN <<"<h", level, ">">> \o escapeHtml(<<PropOr(props, "text", "")>>)
       \o <<"</h", level, ">">>

renderText(props) ==
  <<"<p>">> \o escapeHtml(<<PropOr(props, "content", "")>>) \o <<"</p>">>

\* width and height are undefined unless set to a number other than 0
renderImage(props) ==
  LET dim(k) == IF PropOr(props, k, "undefined") \in {"undefined", "", "0"}
                THEN <<>> ELSE <<<<k, ": ", props[k], "px">>>>
      style == dim("width") \o dim("height")
  IN <<"<img src=\"">> \o escapeHtml(<<PropOr(props, "src", "")>>)
       \o <<"\" alt=\"">> \o escapeHtml(<<PropOr(props, "alt", "")>>)
       \o <<"\"">>
       \o (IF style = <<>> THEN <<>>
           ELSE <<" style=\"">> \o Join(style, <<"; ">>) \o <<"\"">>)
       \o <<">">>

renderList(props, arrs) ==
  LET tag == IF PropOr(props, "ordered", "false") = "true" THEN "ol" ELSE "ul"
      itemsArray == IF PropOr(props, "items", "") \in DOMAIN arrs
                    THEN arrs[props.items] ELSE <<>>
  IN <<"<", tag, ">">>
       \o Flatten([i \in DOMAIN itemsArray |->
                     <<"<li>">> \o escapeHtml(<<itemsArray[i]>>) \o <<"</li>">>])
       \o <<"</", tag, ">">>

\* this.elementTypes[element.type]?.render(element.props) || ''
renderElement(element, arrs) ==
  CASE element.type = "title" -> renderTitle(element.props)
    [] element.type = "text" -> renderText(element.props)
    [] element.type = "image" -> renderImage(element.props)
    [] element.type = "list" -> renderList(element.props, arrs)
    [] OTHER -> <<>>

Renders(E, objs, arrs) == [i \in DOMAIN E |-> renderElement(objs[E[i]], arrs)]

\* generateHTML leaving out the instances whose validate returns a message
generateHTMLValidOnly(E, objs, arrs) ==
  LET valid == SelectSeq(E, LAMBDA r : validate(objs[r], arrs) = <<>>)
  IN IF Len(valid) = 0 THEN <<>>
     ELSE Join(Renders(valid, objs, arrs), <<"\n">>)

\* generateHTML gluing the renders without a separator
generateHTMLGlued(E, objs, arrs) == Flatten(Renders(E, objs, arrs))

generateHTML(E, objs, arrs) ==
  IF Len(E) = 0 THEN <<>> ELSE Join(Renders(E, objs, arrs), <<"\n">>)

getHTML ==
  /\ op' = [name |-> "getHTML",
            result |-> generateHTML(elements, objects, arrays)]
  /\ UNCHANGED <<objects, arrays, elements, selectedElement, draggedElement,
                 elementCounter, clock, previewIframe, previewNodes,
                 previewEmptyState, htmlOutput, drag, srcAttached, messages,
                 htmlTemplate, registry, copying, peer, listeners, validationErrorEl>>

ExportTypeInputs == {"title", "text", "list"}

NextExport ==
  \/ \E type \in ExportTypeInputs : addElement(type)
  \/ \E elementId \in IdInputs : selectElement(elementId)
  \/ \E key \in PropertyKeys, value \in PropertyValues :
       updateProperty(key, value)
  \/ \E elementId \in IdInputs : deleteElement(elementId)
  \/ removeListItem(0)
  \/ getHTML

SpecExport == Init /\ [][NextExport]_vars

(***************************************************************************)
(* HTMLTemplateHelper: building the document.                              *)
(***************************************************************************)
Has(entries, key) == \E i \in DOMAIN entries : entries[i].key = key

Lookup(entries, key) ==
  entries[CHOOSE i \in DOMAIN entries : entries[i].key = key].value

\* the value of entries[key] is truthy
Truthy(entries, key) ==
  /\ Has(entries, key)
  /\ \/ Lookup(entries, key).kind = "true"
     \/ Lookup(entries, key).kind = "string" /\ Lookup(entries, key).text # <<>>

\* { ...a, ...b }
SpreadMerge(a, b) ==
  [i \in DOMAIN a |-> IF Has(b, a[i].key)
                      THEN Entry(a[i].key, Lookup(b, a[i].key)) ELSE a[i]]
    \o SelectSeq(b, LAMBDA e : ~Has(a, e.key))

\* field || fallback for a string field: undefined and '' fall back
TextOr(field, fallback) ==
  IF field.present /\ field.value # <<>> THEN field.value ELSE fallback

\* field || fallback for an array field: only undefined falls back
ArrayOr(field, fallback) == IF field.present THEN field.value ELSE fallback

\* object?.field
Chain(object, field) == IF object.present THEN object.value[field] ELSE None

\* object spread of an optional object
Spread(field) == IF field.present THEN field.value ELSE <<>>

\* AttributeText writing the value as it is
AttributeTextRaw(e) ==
  IF e.value.kind = "true" THEN <<e.key>>
  ELSE <<e.key, "=\"">> \o e.value.text \o <<"\"">>

\* key="escaped value", or the bare key for true
AttributeText(e) ==
  IF e.value.kind = "true" THEN <<e.key>>
  ELSE <<e.key, "=\"">> \o escapeHtml(e.value.text) \o <<"\"">>

buildAttributes(attributes) ==
  LET kept == SelectSeq(attributes,
                        LAMBDA e : e.value.kind \notin {"undefined", "false"})
      attrs == [i \in DOMAIN kept |-> AttributeText(kept[i])]
  IN IF Len(attrs) > 0 THEN <<" ">> \o Join(attrs, <<" ">>) ELSE <<>>

\* The parts pushed for one entry of headConfig.scripts.
ScriptParts(script) ==
  IF Truthy(script, "content")
  THEN LET scriptAttrs ==
             SelectSeq(<<"type", "async", "defer">>,
                       LAMBDA k : Truthy(script, k))
           attributes ==
             buildAttributes([i \in DOMAIN scriptAttrs |->
                                Entry(scriptAttrs[i],
                                      Lookup(script, scriptAttrs[i]))])
       IN << <<"  <script">> \o attributes \o <<">">>,
             <<"    ">> \o Lookup(script, "content").text,
             <<"  </script>">> >>
  ELSE IF Truthy(script, "src")
  THEN << <<"  <script">> \o buildAttributes(script) \o <<"></script>">> >>
  ELSE <<>>

Whitespace == {" ", "\t"}

\* String.prototype.trim
RECURSIVE TrimStart(_)
TrimStart(line) ==
  IF line # <<>> /\ Head(line) \in Whitespace THEN TrimStart(Tail(line))
  ELSE line

RECURSIVE TrimEnd(_)
TrimEnd(line) ==
  IF line # <<>> /\ line[Len(line)] \in Whitespace
  THEN TrimEnd(SubSeq(line, 1, Len(line) - 1))
  ELSE line

Trim(line) == TrimEnd(TrimStart(line))

\* The lines pushed for headConfig.customHead.
CustomLines(customHead) ==
  LET lines == SplitLines(customHead, <<>>)
      trimmed == [i \in DOMAIN lines |-> Trim(lines[i])]
      kept == SelectSeq(trimmed, LAMBDA line : Len(line) > 0)
  IN [i \in DOMAIN kept |-> <<"  ">> \o kept[i]]

\* buildHeadSection pushing the scripts before the meta and link elements
buildHeadSectionScriptsFirst(headConfig) ==
  LET title == IF headConfig.title # <<>>
               THEN << <<"  <title>">> \o escapeHtml(headConfig.title)
                         \o <<"</title>">> >>
               ELSE <<>>
      meta == [i \in DOMAIN headConfig.meta |->
                 <<"  <meta">> \o buildAttributes(headConfig.meta[i]) \o <<">">>]
      links == [i \in DOMAIN headConfig.links |->
                  <<"  <link">> \o buildAttributes(headConfig.links[i])
                    \o <<">">>]
      scripts == Flatten([i \in DOMAIN headConfig.scripts |->
                            ScriptParts(headConfig.scripts[i])])
      custom == IF headConfig.customHead # <<>>
                THEN CustomLines(headConfig.customHead) ELSE <<>>
  IN Join(title \o scripts \o meta \o links \o custom, <<"\n">>)

\* headConfig has the fields title, meta, links, scripts, customHead.
buildHeadSection(headConfig) ==
  LET title == IF headConfig.title # <<>>
               THEN << <<"  <title>">> \o escapeHtml(headConfig.title)
                         \o <<"</title>">> >>
               ELSE <<>>
      meta == [i \in DOMAIN headConfig.meta |->
                 <<"  <meta">> \o buildAttributes(headConfig.meta[i]) \o <<">">>]
      links == [i \in DOMAIN headConfig.links |->
                  <<"  <link">> \o buildAttributes(headConfig.links[i])
                    \o <<">">>]
      scripts == Flatten([i \in DOMAIN headConfig.scripts |->
                            ScriptParts(headConfig.scripts[i])])
      custom == IF headConfig.customHead # <<>>
                THEN CustomLines(headConfig.customHead) ELSE <<>>
  IN Join(title \o meta \o links \o scripts \o custom, <<"\n">>)

\* String.prototype.length of the strings of the templates: the two long
\* titles are single tokens, every other token counts as one character.
TokenLength(token) ==
  CASE token = "a.repeat(201)" -> 201
    [] token = "a.repeat(200)" -> 200
    [] OTHER -> 1

RECURSIVE StringLength(_)
StringLength(text) ==
  IF text = <<>> THEN 0 ELSE TokenLength(Head(text)) + StringLength(Tail(text))

\* doctype.toLowerCase().includes('doctype')
IncludesDoctype(doctype) ==
  \E i \in DOMAIN doctype : doctype[i] \in {"<!DOCTYPE html>", "<!doctype html>"}

MaxTitleLength == 200

\* The check of one entry of head.links; the empty sequence is no error.
linkError(link) ==
  IF ~Truthy(link, "rel") THEN <<"Link element must have rel attribute">>
  ELSE IF Lookup(link, "rel") = Str(<<"stylesheet">>) /\ ~Truthy(link, "href")
  THEN <<"Stylesheet link must have href attribute">>
  ELSE <<>>

\* validateTemplate: the empty sequence is null, a message is the sequence
\* holding it.
validateTemplate(template) ==
  LET title == Chain(template.head, "title")
      meta == Spread(Chain(template.head, "meta"))
      links == Spread(Chain(template.head, "links"))
      badMeta == {i \in DOMAIN meta :
                    /\ ~Truthy(meta[i], "charset")
                    /\ ~Truthy(meta[i], "name")
                    /\ ~Truthy(meta[i], "property")
                    /\ ~Truthy(meta[i], "httpEquiv")}
      badLinks == {i \in DOMAIN links : linkError(links[i]) # <<>>}
  IN IF /\ template.doctype.present
        /\ template.doctype.value # <<>>
        /\ ~IncludesDoctype(template.doctype.value)
     THEN <<"Invalid doctype format">>
     ELSE IF /\ title.present
             /\ title.value # <<>>
             /\ StringLength(title.value) > MaxTitleLength
     THEN <<"Title is too long (max 200 characters)">>
     ELSE IF badMeta # {}
     THEN <<"Meta element must have at least one of: charset, name, property, or http-equiv">>
     ELSE IF badLinks # {} THEN linkError(links[FirstIndex(badLinks)])
     ELSE <<>>

\* The merge with supplied meta, links and scripts added to the default arrays.
MergedTemplateConcatenating(template) ==
  LET default == getDefaultTemplate
      dhead == default.head.value
  IN [doctype |-> TextOr(template.doctype, default.doctype.value),
      htmlAttributes |-> SpreadMerge(default.htmlAttributes.value,
                                     Spread(template.htmlAttributes)),
      head |-> [title |-> TextOr(Chain(template.head, "title"),
                                 dhead.title.value),
                meta |-> dhead.meta.value
                           \o Spread(Chain(template.head, "meta")),
                links |-> dhead.links.value
                            \o Spread(Chain(template.head, "links")),
                scripts |-> dhead.scripts.value
                              \o Spread(Chain(template.head, "scripts")),
                customHead |-> TextOr(Chain(template.head, "customHead"),
                                      dhead.customHead.value)],
      bodyAttributes |-> SpreadMerge(default.bodyAttributes.value,
                                     Spread(template.bodyAttributes))]

\* The merge of a template over the default template.
MergedTemplate(template) ==
  LET default == getDefaultTemplate
      dhead == default.head.value
  IN [doctype |-> TextOr(template.doctype, default.doctype.value),
      htmlAttributes |-> SpreadMerge(default.htmlAttributes.value,
                                     Spread(template.htmlAttributes)),
      head |-> [title |-> TextOr(Chain(template.head, "title"),
                                 dhead.title.value),
                meta |-> ArrayOr(Chain(template.head, "meta"),
                                 dhead.meta.value),
                links |-> ArrayOr(Chain(template.head, "links"),
                                  dhead.links.value),
                scripts |-> ArrayOr(Chain(template.head, "scripts"),
                                    dhead.scripts.value),
                customHead |-> TextOr(Chain(template.head, "customHead"),
                                      dhead.customHead.value)],
      bodyAttributes |-> SpreadMerge(default.bodyAttributes.value,
                                     Spread(template.bodyAttributes))]

\* mergedTemplate as the HTMLTemplate it is: every field is given.
AsTemplate(mergedTemplate) ==
  [doctype |-> Some(mergedTemplate.doctype),
   htmlAttributes |-> Some(mergedTemplate.htmlAttributes),
   head |-> Some([title |-> Some(mergedTemplate.head.title),
                  meta |-> Some(mergedTemplate.head.meta),
                  links |-> Some(mergedTemplate.head.links),
                  scripts |-> Some(mergedTemplate.head.scripts),
                  customHead |-> Some(mergedTemplate.head.customHead)]),
   bodyAttributes |-> Some(mergedTemplate.bodyAttributes)]

\* The html array of generateFullHTML joined with newlines.
html(mergedTemplate, bodyContent) ==
  LET htmlAttributes == buildAttributes(mergedTemplate.htmlAttributes)
      bodyAttributes == buildAttributes(mergedTemplate.bodyAttributes)
      headContent == buildHeadSection(mergedTemplate.head)
  IN Join(<< mergedTemplate.doctype,
             <<"<html">> \o htmlAttributes \o <<">">>,
             <<"<head>">>,
             headContent,
             <<"</head>">>,
             <<"<body">> \o bodyAttributes \o <<">">>,
             bodyContent,
             <<"</body>">>,
             <<"</html>">> >>, <<"\n">>)

\* generateFullHTML returning the validation message in place of the document
generateFullHTMLBlocking(bodyContent, template) ==
  LET mergedTemplate == MergedTemplate(template)
      validationError == validateTemplate(AsTemplate(mergedTemplate))
  IN IF validationError # <<>> THEN validationError
     ELSE html(mergedTemplate, bodyContent)

\* The validation error only goes to console.warn.
generateFullHTML(bodyContent, template) ==
  LET mergedTemplate == MergedTemplate(template)
      validationError == validateTemplate(AsTemplate(mergedTemplate))
  IN html(mergedTemplate, bodyContent)

\* updates.field wins when given: { ...currentTemplate, ...updates }
Over(current, updates) == IF updates.present THEN updates ELSE current

\* updateTemplate with the supplied arrays added to the current ones
updateTemplateConcatenating(currentTemplate, updates) ==
  [doctype |-> Over(currentTemplate.doctype, updates.doctype),
   htmlAttributes |-> Some(SpreadMerge(Spread(currentTemplate.htmlAttributes),
                                       Spread(updates.htmlAttributes))),
   head |-> Some(
     [title |-> Over(Chain(currentTemplate.head, "title"),
                     Chain(updates.head, "title")),
      customHead |-> Over(Chain(currentTemplate.head, "customHead"),
                          Chain(updates.head, "customHead")),
      meta |-> Some(Spread(Chain(currentTemplate.head, "meta"))
                      \o Spread(Chain(updates.head, "meta"))),
      links |-> Some(Spread(Chain(currentTemplate.head, "links"))
                       \o Spread(Chain(updates.head, "links"))),
      scripts |-> Some(Spread(Chain(currentTemplate.head, "scripts"))
                         \o Spread(Chain(updates.head, "scripts")))]),
   bodyAttributes |-> Some(SpreadMerge(Spread(currentTemplate.bodyAttributes),
                                       Spread(updates.bodyAttributes)))]

\* HTMLTemplateHelper.updateTemplate: a new object literal; an array is
\* truthy, so updates.head?.meta || currentTemplate.head?.meta takes the
\* array of updates whenever it is given.
updateTemplate(currentTemplate, updates) ==
  [doctype |-> Over(currentTemplate.doctype, updates.doctype),
   htmlAttributes |-> Some(SpreadMerge(Spread(currentTemplate.htmlAttributes),
                                       Spread(updates.htmlAttributes))),
   head |-> Some(
     [title |-> Over(Chain(currentTemplate.head, "title"),
                     Chain(updates.head, "title")),
      customHead |-> Over(Chain(currentTemplate.head, "customHead"),
                          Chain(updates.head, "customHead")),
      meta |-> Over(Chain(currentTemplate.head, "meta"),
                    Chain(updates.head, "meta")),
      links |-> Over(Chain(currentTemplate.head, "links"),
                     Chain(updates.head, "links")),
      scripts |-> Over(Chain(currentTemplate.head, "scripts"),
                       Chain(updates.head, "scripts"))]),
   bodyAttributes |-> Some(SpreadMerge(Spread(currentTemplate.bodyAttributes),
                                       Spread(updates.bodyAttributes)))]

(***************************************************************************)
(* updateHTMLTemplate and getHTMLTemplate.                                 *)
(***************************************************************************)
UpdateInputs ==
  [doctype : Optional({<<"<!doctype html>">>}),
   htmlAttributes : Optional({<<Entry("lang", Str(<<"ja">>)),
                                Entry("dir", Str(<<"ltr">>))>>}),
   head : Optional([title : Optional({<<>>, <<"Updated Title">>}),
                    meta : Optional({<<>>,
                                     << <<Entry("name", Str(<<"author">>))>> >>}),
                    links : {None},
                    scripts : {None},
                    customHead : {None}]),
   bodyAttributes : Optional({<<Entry("class", Str(<<"updated">>)),
                                Entry("id", Str(<<"main">>))>>})]

\* updateHTMLTemplate(template).  The record of the call keeps what the
\* object that was this.htmlTemplate holds after the call: updateTemplate
\* only reads it.
updateHTMLTemplate(template) ==
  /\ htmlTemplate' = updateTemplate(htmlTemplate, template)
  /\ op' = [name |-> "updateHTMLTemplate", updates |-> template,
            currentTemplate |-> htmlTemplate]
  /\ UNCHANGED <<objects, arrays, elements, selectedElement, draggedElement,
                 elementCounter, clock, previewIframe, previewNodes,
                 previewEmptyState, htmlOutput, drag, srcAttached, messages,
                 registry, copying, peer, listeners, validationErrorEl>>

\* getHTMLTemplate(): { ...this.htmlTemplate }
getHTMLTemplate ==
  /\ op' = [name |-> "getHTMLTemplate", result |-> htmlTemplate]
  /\ UNCHANGED <<objects, arrays, elements, selectedElement, draggedElement,
                 elementCounter, clock, previewIframe, previewNodes,
                 previewEmptyState, htmlOutput, drag, srcAttached, messages,
                 htmlTemplate, registry, copying, peer, listeners, validationErrorEl>>

NextUpdateTemplate ==
  \/ \E template \in UpdateInputs : updateHTMLTemplate(template)
  \/ getHTMLTemplate

SpecUpdateTemplate == Init /\ [][NextUpdateTemplate]_vars

(***************************************************************************)
(* getFullHTML with the template given to the constructor.                 *)
(***************************************************************************)
MaxHeadEntries == 2

DoctypeInputs == Optional({<<"<!doctype html>">>})

HtmlAttributeInputs == Optional({<<Entry("lang", Str(<<"ja">>))>>})

BodyAttributeInputs ==
  Optional({<<Entry("class", Str(<<"<body">>))>>, <<Entry("<body", True)>>})

TitleInputs == Optional({<<"<body", "&", "</head>">>})

MetaElements ==
  {<<Entry("name", Str(<<"description">>)),
     Entry("content", Str(<<"<html", "</body>">>))>>}

LinkElements ==
  {<<Entry("rel", Str(<<"stylesheet">>)), Entry("href", Str(<<"a.css">>))>>}

ScriptElements ==
  {<<Entry("content", Str(<<"init()">>)), Entry("async", True)>>,
   <<Entry("content", Str(<<"s = '", "</body>", "'">>))>>,
   <<Entry("src", Str(<<"<head>", ".js">>)), Entry("defer", False)>>}

CustomHeadInputs ==
  Optional({<<" ", "<style>", "\n", "\n", "</style>", "\t">>,
            <<"<!--", "</head>", "-->">>})

HeadInputs ==
  Optional([title : TitleInputs,
            meta : Optional(SeqsUpTo(MetaElements, MaxHeadEntries)),
            links : Optional(SeqsUpTo(LinkElements, MaxHeadEntries)),
            scripts : Optional(SeqsUpTo(ScriptElements, MaxHeadEntries)),
            customHead : CustomHeadInputs])

TemplateInputs ==
  [doctype : DoctypeInputs, htmlAttributes : HtmlAttributeInputs,
   head : HeadInputs, bodyAttributes : BodyAttributeInputs]

TemplatePropertyValues == {"<body"}

\* getFullHTML(): generateFullHTML(this.generateHTML(), this.htmlTemplate)
getFullHTML ==
  /\ op' = [name |-> "getFullHTML", template |-> htmlTemplate,
            result |-> generateFullHTML(
                         generateHTML(elements, objects, arrays),
                         htmlTemplate)]
  /\ UNCHANGED <<objects, arrays, elements, selectedElement, draggedElement,
                 elementCounter, clock, previewIframe, previewNodes,
                 previewEmptyState, htmlOutput, drag, srcAttached, messages,
                 htmlTemplate, registry, copying, peer, listeners, validationErrorEl>>

NextTemplate ==
  \/ \E type \in DOMAIN elementTypes : addElement(type)
  \/ \E key \in PropertyKeys, value \in TemplatePropertyValues :
       updateProperty(key, value)
  \/ getFullHTML

\* The builder constructed with an htmlTemplate option.
InitTemplate ==
  \E template \in TemplateInputs :
    constructor([htmlTemplate |-> Some(template)])

SpecTemplate == InitTemplate /\ [][NextTemplate]_vars

(***************************************************************************)
(* Editing and exporting documents whose instances fail validation.        *)
(***************************************************************************)
\* The edits of the properties panel that make an instance invalid.
ValidationUpdates ==
  {<<"text", "">>, <<"content", " ">>, <<"src", "not a url">>}

\* The input listener of a .property-input of the properties panel: the
\* panel shows the inputs of the selected instance's own properties.
propertyInput(property, value) ==
  /\ selectedElement # Null
  /\ property \in DOMAIN objects[selectedElement].props
  /\ updateProperty(property, value)

NextValidation ==
  \/ \E type \in DOMAIN elementTypes : addElement(type)
  \/ \E elementId \in IdInputs : selectElement(elementId)
  \/ \E update \in ValidationUpdates : propertyInput(update[1], update[2])
  \/ \E elementId \in IdInputs : deleteElement(elementId)
  \/ \E newOrder \in ReorderInputs : reorder(newOrder)
  \/ removeListItem(0)
  \/ getHTML
  \/ getFullHTML

SpecValidation == Init /\ [][NextValidation]_vars

(***************************************************************************)
(* validateTemplate and getFullHTML with templates that break the rules.   *)
(***************************************************************************)
ValidationDoctypeInputs ==
  Optional({<<>>, <<"invalid">>, <<"<!doctype html>">>})

ValidationTitleInputs == Optional({<<"a.repeat(201)">>, <<"a.repeat(200)">>})

ValidationMetaElements ==
  {<<Entry("charset", Str(<<"UTF-8">>))>>,
   <<Entry("content", Str(<<"value">>))>>,
   <<Entry("httpEquiv", Str(<<"refresh">>)), Entry("content", Str(<<"30">>))>>,
   <<Entry("http-equiv", Str(<<"refresh">>)), Entry("content", Str(<<"30">>))>>}

ValidationLinkElements ==
  {<<Entry("rel", Str(<<"stylesheet">>)), Entry("href", Str(<<"style.css">>))>>,
   <<Entry("rel", Str(<<"stylesheet">>))>>,
   <<Entry("href", Str(<<"style.css">>))>>,
   <<Entry("rel", Str(<<"icon">>))>>}

ValidationHeadInputs ==
  Optional([title : ValidationTitleInputs,
            meta : Optional(SeqsUpTo(ValidationMetaElements, MaxHeadEntries)),
            links : Optional(SeqsUpTo(ValidationLinkElements, MaxHeadEntries)),
            scripts : {None},
            customHead : {None}])

ValidationTemplateInputs ==
  [doctype : ValidationDoctypeInputs, htmlAttributes : {None},
   head : ValidationHeadInputs, bodyAttributes : {None}]

\* HTMLTemplateHelper.validateTemplate(template) on the builder's template
callValidateTemplate ==
  /\ op' = [name |-> "validateTemplate", template |-> htmlTemplate,
            result |-> validateTemplate(htmlTemplate)]
  /\ UNCHANGED <<objects, arrays, elements, selectedElement, draggedElement,
                 elementCounter, clock, previewIframe, previewNodes,
                 previewEmptyState, htmlOutput, drag, srcAttached, messages,
                 htmlTemplate, registry, copying, peer, listeners, validationErrorEl>>

NextTemplateValidation ==
  \/ \E type \in SeedTypes : addElement(type)
  \/ callValidateTemplate
  \/ getFullHTML

InitTemplateValidation ==
  \E template \in ValidationTemplateInputs :
    constructor([htmlTemplate |-> Some(template)])

SpecTemplateValidation ==
  InitTemplateValidation /\ [][NextTemplateValidation]_vars

(***************************************************************************)
(* getFullHTML with partial templates: every field left out, given empty   *)
(* or given with content.                                                  *)
(***************************************************************************)
MergeMapInputs ==
  Optional({<<Entry("lang", Str(<<"ja">>)), Entry("dir", Str(<<"ltr">>))>>,
            <<Entry("class", Str(<<"custom-body">>))>>})

MergeTextInputs == Optional({<<>>, <<"Custom">>})

MergeMetaInputs ==
  Optional({<<>>, << <<Entry("name", Str(<<"description">>)),
                       Entry("content", Str(<<"Custom description">>))>> >>})

MergeLinkInputs ==
  Optional({<<>>, << <<Entry("rel", Str(<<"icon">>)),
                       Entry("href", Str(<<"favicon.ico">>))>> >>})

MergeScriptInputs ==
  Optional({<<>>, << <<Entry("src", Str(<<"app.js">>))>> >>})

MergeHeadInputs ==
  Optional([title : MergeTextInputs, meta : MergeMetaInputs,
            links : MergeLinkInputs, scripts : MergeScriptInputs,
            customHead : MergeTextInputs])

MergeTemplateInputs ==
  [doctype : MergeTextInputs, htmlAttributes : MergeMapInputs,
   head : MergeHeadInputs, bodyAttributes : MergeMapInputs]

NextMerge ==
  \/ \E type \in SeedTypes : addElement(type)
  \/ getFullHTML

InitMerge ==
  \E template \in MergeTemplateInputs :
    constructor([htmlTemplate |-> Some(template)])

SpecMerge == InitMerge /\ [][NextMerge]_vars

(***************************************************************************)
(* The head of the exported document, for every template of TemplateInputs.*)
(***************************************************************************)
NextHead == getFullHTML

SpecHead == InitTemplate /\ [][NextHead]_vars

(***************************************************************************)
(* Registration of element types.  A mapping of element types is an object *)
(* on the heap typeMaps; this.elementTypes is the reference                 *)
(* thisElementTypes.  The element-type lookups of the other specifications  *)
(* read the built-in mapping, which is what this.elementTypes refers to as  *)
(* long as nothing is registered.                                          *)
(***************************************************************************)
MaxRegistrations == 2

\* The custom descriptor of the registerElementType tests.
CustomType == [name |-> "Custom", defaultProps |-> [value |-> "test"]]

NameInputs == {"title", "custom", "list"}

DefinitionInputs == {CustomType, getAllElementTypes.title,
                     getAllElementTypes.text}

\* existing[name] = definition; return existing
registerElementTypeInPlace(maps, existing, name, definition) ==
  LET created == [key \in DOMAIN maps[existing] \cup {name} |->
                    IF key = name THEN definition ELSE maps[existing][key]]
  IN [maps |-> [maps EXCEPT ![existing] = created], result |-> existing]

\* ElementTypesHelper.registerElementType(elementTypes, name, definition):
\* return { ...elementTypes, [name]: definition }, a new object
ElementTypesHelper_registerElementType(maps, existing, name, definition) ==
  LET created == [key \in DOMAIN maps[existing] \cup {name} |->
                    IF key = name THEN definition ELSE maps[existing][key]]
  IN [maps |-> Append(maps, created), result |-> Len(maps) + 1]

\* builder.registerElementType(name, definition)
registerElementType(name, definition) ==
  /\ Len(typeMaps) <= MaxRegistrations
  /\ LET call == ElementTypesHelper_registerElementType(
                   typeMaps, thisElementTypes, name, definition)
     IN /\ typeMaps' = call.maps
        /\ thisElementTypes' = call.result
        /\ op' = [name |-> "registerElementType", existing |-> thisElementTypes,
                  key |-> name, definition |-> definition,
                  result |-> call.result]
  /\ UNCHANGED <<objects, arrays, elements, selectedElement, draggedElement,
                 elementCounter, clock, previewIframe, previewNodes,
                 previewEmptyState, htmlOutput, drag, srcAttached, messages,
                 htmlTemplate, copying, peer, listeners, validationErrorEl>>

\* ElementTypesHelper.registerElementType called on any mapping at hand
callRegisterElementType(existing, name, definition) ==
  /\ Len(typeMaps) <= MaxRegistrations
  /\ LET call == ElementTypesHelper_registerElementType(
                   typeMaps, existing, name, definition)
     IN /\ typeMaps' = call.maps
        /\ op' = [name |-> "ElementTypesHelper.registerElementType",
                  existing |-> existing, key |-> name,
                  definition |-> definition, result |-> call.result]
  /\ UNCHANGED <<objects, arrays, elements, selectedElement, draggedElement,
                 elementCounter, clock, previewIframe, previewNodes,
                 previewEmptyState, htmlOutput, drag, srcAttached, messages,
                 htmlTemplate, thisElementTypes, copying, peer, listeners, validationErrorEl>>

NextRegister ==
  \/ \E name \in NameInputs, definition \in DefinitionInputs :
       registerElementType(name, definition)
  \/ \E existing \in DOMAIN typeMaps, name \in NameInputs,
        definition \in DefinitionInputs :
       callRegisterElementType(existing, name, definition)

SpecRegister == Init /\ [][NextRegister]_vars

(***************************************************************************)
(* copyHTML.  The call runs up to its await; the write to the clipboard    *)
(* settles in a later step.  Whether navigator.clipboard exists, whether   *)
(* the write resolves and what execCommand returns are the environment's   *)
(* choice.                                                                 *)
(***************************************************************************)
MaxCopies == 2

\* NotificationHelper.showSuccess(message): one element appended to the page
showSuccess(shown, call) ==
  Append(shown, [type |-> "success",
                 message |-> "Full HTML copied to clipboard!",
                 call |-> call])

\* a catch block that hands the error on
catchRethrow(call, fullHTML, done) ==
  [copied |-> copied, notifications |-> notifications,
   returned |-> "rejected"]

\* a catch block that generates the document again for the textarea
catchRegenerating(call, fullHTML, done) ==
  [copied |-> Append(copied,
                [mechanism |-> "execCommand",
                 text |-> generateFullHTML(
                            generateHTML(elements, objects, arrays),
                            htmlTemplate),
                 done |-> done, call |-> call]),
   notifications |-> showSuccess(notifications, call),
   returned |-> "fulfilled"]

\* catch (err): the textarea holding html is selected, execCommand('copy')
\* is called and the notification is shown
catch(call, fullHTML, done) ==
  [copied |-> Append(copied, [mechanism |-> "execCommand", text |-> fullHTML,
                              done |-> done, call |-> call]),
   notifications |-> showSuccess(notifications, call),
   returned |-> "fulfilled"]

\* copyHTML() up to the await.  navigator.clipboard.writeText(html) either
\* returns a promise or, without navigator.clipboard, throws into the catch.
copyHTML ==
  /\ Len(copyCalls) < MaxCopies
  /\ LET fullHTML == generateFullHTML(generateHTML(elements, objects, arrays),
                                  htmlTemplate)
         call == Len(copyCalls) + 1
     IN /\ \/ /\ copyCalls' = Append(copyCalls,
                                [html |-> fullHTML, write |-> "pending",
                                 returned |-> "pending"])
              /\ copied' = Append(copied,
                             [mechanism |-> "clipboard.writeText",
                              text |-> fullHTML, done |-> FALSE, call |-> call])
              /\ UNCHANGED notifications
           \/ \E done \in BOOLEAN :
                LET caught == catch(call, fullHTML, done)
                IN /\ copyCalls' = Append(copyCalls,
                                     [html |-> fullHTML, write |-> "threw",
                                      returned |-> caught.returned])
                   /\ copied' = caught.copied
                   /\ notifications' = caught.notifications
        /\ op' = [name |-> "copyHTML", call |-> call]
  /\ UNCHANGED <<objects, arrays, elements, selectedElement, draggedElement,
                 elementCounter, clock, previewIframe, previewNodes,
                 previewEmptyState, htmlOutput, drag, srcAttached, messages,
                 htmlTemplate, registry, peer, listeners, validationErrorEl>>

\* the promise of writeText resolves: the text is on the clipboard and the
\* line after the await runs
writeTextResolves(call) ==
  /\ call \in DOMAIN copyCalls
  /\ copyCalls[call].write = "pending"
  /\ copyCalls' = [copyCalls EXCEPT ![call].write = "resolved",
                                    ![call].returned = "fulfilled"]
  /\ copied' = [copied EXCEPT
                  ![CHOOSE i \in DOMAIN copied :
                      /\ copied[i].call = call
                      /\ copied[i].mechanism = "clipboard.writeText"].done
                    = TRUE]
  /\ notifications' = showSuccess(notifications, call)
  /\ op' = [name |-> "writeTextResolves", call |-> call]
  /\ UNCHANGED <<objects, arrays, elements, selectedElement, draggedElement,
                 elementCounter, clock, previewIframe, previewNodes,
                 previewEmptyState, htmlOutput, drag, srcAttached, messages,
                 htmlTemplate, registry, peer, listeners, validationErrorEl>>

\* the promise of writeText rejects: the await throws into the catch
writeTextRejects(call) ==
  /\ call \in DOMAIN copyCalls
  /\ copyCalls[call].write = "pending"
  /\ \E done \in BOOLEAN :
       LET caught == catch(call, copyCalls[call].html, done)
       IN /\ copyCalls' = [copyCalls EXCEPT
                             ![call].write = "rejected",
                             ![call].returned = caught.returned]
          /\ copied' = caught.copied
          /\ notifications' = caught.notifications
  /\ op' = [name |-> "writeTextRejects", call |-> call]
  /\ UNCHANGED <<objects, arrays, elements, selectedElement, draggedElement,
                 elementCounter, clock, previewIframe, previewNodes,
                 previewEmptyState, htmlOutput, drag, srcAttached, messages,
                 htmlTemplate, registry, peer, listeners, validationErrorEl>>

NextCopy ==
  \/ \E type \in ExportTypeInputs : addElement(type)
  \/ \E elementId \in IdInputs : deleteElement(elementId)
  \/ copyHTML
  \/ \E call \in 1..MaxCopies : writeTextResolves(call)
  \/ \E call \in 1..MaxCopies : writeTextRejects(call)

SpecCopy == Init /\ [][NextCopy]_vars

(***************************************************************************)
(* The validate function of the list element type, applied to any value    *)
(* of props.items: not an array, or an array of strings and other values.  *)
(***************************************************************************)
MaxListLength == 3

Number(text) == [kind |-> "number", text |-> text]

\* The items of the list validation tests, and a number among them.
ItemInputs == {Str(<<"Item 1">>), Str(<<>>), Str(<<" ", " ", " ">>),
               Str(<<" ", "Item 3">>), Number(<<"0">>)}

\* props.items: an array, or undefined or another value that is no array
ItemsInputs ==
  {[isArray |-> FALSE, items |-> <<>>]}
    \cup {[isArray |-> TRUE, items |-> items] :
            items \in SeqsUpTo(ItemInputs, MaxListLength)}

\* the validation without trim()
createListElement_validateUntrimmed(props) ==
  LET itemsArray == IF props.items.isArray THEN props.items.items ELSE <<>>
      validItems == SelectSeq(itemsArray, LAMBDA item : item.kind = "string")
  IN IF Len(validItems) = 0 THEN <<"List must have at least one item">>
     ELSE IF \E i \in DOMAIN validItems : validItems[i].text = <<>>
     THEN <<"List items cannot be empty">>
     ELSE <<>>

\* createListElement().validate(props)
createListElement_validate(props) ==
  LET itemsArray == IF props.items.isArray THEN props.items.items ELSE <<>>
      validItems == SelectSeq(itemsArray, LAMBDA item : item.kind = "string")
  IN IF Len(validItems) = 0 THEN <<"List must have at least one item">>
     ELSE IF \E i \in DOMAIN validItems : Trim(validItems[i].text) = <<>>
     THEN <<"List items cannot be empty">>
     ELSE <<>>

callListValidate(props) ==
  /\ op.name = "new"
  /\ op' = [name |-> "validate", props |-> props,
            result |-> createListElement_validate(props)]
  /\ UNCHANGED <<objects, arrays, elements, selectedElement, draggedElement,
                 elementCounter, clock, previewIframe, previewNodes,
                 previewEmptyState, htmlOutput, drag, srcAttached, messages,
                 htmlTemplate, registry, copying, peer, listeners, validationErrorEl>>

NextListValidation ==
  \E items \in ItemsInputs : callListValidate([items |-> items])

SpecListValidation == Init /\ [][NextListValidation]_vars

(***************************************************************************)
(* Two builders on one page.  The preview of each posts its deleteElement  *)
(* messages to the same parent window, where both builders listen.         *)
(***************************************************************************)
PeerDocuments == InjectiveSeqs(IdInputs, 2)

\* setElements of the second builder
peerSetElements(ids) ==
  /\ peerElements' = ids
  /\ peerSelectedElement' = Null
  /\ op' = [name |-> "peer.setElements", id |-> 0]
  /\ UNCHANGED <<objects, arrays, elements, selectedElement, draggedElement,
                 elementCounter, clock, previewIframe, previewNodes,
                 previewEmptyState, htmlOutput, drag, srcAttached, messages,
                 htmlTemplate, registry, copying, listeners, validationErrorEl>>

\* selectElement of the second builder
peerSelectElement(elementId) ==
  /\ peerSelectedElement' = IF elementId \in Range(peerElements)
                            THEN elementId ELSE Null
  /\ op' = [name |-> "peer.selectElement", id |-> elementId]
  /\ UNCHANGED <<objects, arrays, elements, selectedElement, draggedElement,
                 elementCounter, clock, previewIframe, previewNodes,
                 previewEmptyState, htmlOutput, drag, srcAttached, messages,
                 htmlTemplate, registry, copying, peerElements, listeners, validationErrorEl>>

NextPage ==
  \/ render
  \/ \E type \in SeedTypes : addElement(type)
  \/ \E ids \in PeerDocuments : peerSetElements(ids)
  \/ \E elementId \in IdInputs : peerSelectElement(elementId)
  \/ \E i \in 1..(MaxSeed + MaxAdds) : clickDelete(i)
  \/ deliverMessage

SpecPage == Init /\ [][NextPage]_vars

(***************************************************************************)
(* The HTML panel.  Its textarea is written by updateHTMLOutput, which     *)
(* updatePreview and switchTab('html') call.                               *)
(***************************************************************************)
\* The text in the textarea of the HTML panel.
HtmlOutputValue ==
  IF htmlOutput.written
  THEN generateFullHTML(generateHTML(htmlOutput.elements, htmlOutput.objects,
                                     htmlOutput.arrays),
                        htmlOutput.htmlTemplate)
  ELSE <<>>

TabInputs == {"preview", "html"}

\* switchTab(tabName): the classes of the buttons and panels move, and the
\* HTML panel is written when it is the one shown.
switchTab(tabName) ==
  /\ UNCHANGED <<objects, arrays, elements, htmlTemplate>>
  /\ IF tabName = "html" THEN updateHTMLOutput ELSE UNCHANGED htmlOutput
  /\ op' = [name |-> "switchTab", key |-> tabName]
  /\ UNCHANGED <<selectedElement, draggedElement,
                 elementCounter, clock, previewIframe, previewNodes,
                 previewEmptyState, drag, srcAttached, messages,
                 registry, copying, peer, listeners, validationErrorEl>>

\* The template updates of the HTML panel's specification.
OutputUpdateInputs ==
  {u \in UpdateInputs :
     /\ u.doctype = None
     /\ u.htmlAttributes = None
     /\ u.bodyAttributes = None
     /\ u.head.present
     /\ u.head.value.meta = None
     /\ u.head.value.title.present}

NextOutput ==
  \/ render
  \/ \E type \in ExportTypeInputs : addElement(type)
  \/ \E elementId \in IdInputs : selectElement(elementId)
  \/ \E key \in PropertyKeys, value \in PropertyValues :
       updateProperty(key, value)
  \/ removeListItem(0)
  \/ \E elementId \in IdInputs : deleteElement(elementId)
  \/ \E s \in InjectiveSeqs(1..Len(objects), MaxSetElements) : setElements(s)
  \/ \E template \in OutputUpdateInputs : updateHTMLTemplate(template)
  \/ \E tabName \in TabInputs : switchTab(tabName)

SpecOutput == Init /\ [][NextOutput]_vars

(***************************************************************************)
(* Clicks on the controls of the editor.  A click runs every listener the  *)
(* control has.                                                            *)
(***************************************************************************)
\* one copyHTML() call run up to its await, on the record of the copies
startCopy(state, fullHTML, available, done) ==
  LET call == Len(state.copyCalls) + 1
  IN IF available
     THEN [copyCalls |-> Append(state.copyCalls,
                           [html |-> fullHTML, write |-> "pending",
                            returned |-> "pending"]),
           copied |-> Append(state.copied,
                        [mechanism |-> "clipboard.writeText",
                         text |-> fullHTML, done |-> FALSE, call |-> call]),
           notifications |-> state.notifications]
     ELSE [copyCalls |-> Append(state.copyCalls,
                           [html |-> fullHTML, write |-> "threw",
                            returned |-> "fulfilled"]),
           copied |-> Append(state.copied,
                        [mechanism |-> "execCommand", text |-> fullHTML,
                         done |-> done, call |-> call]),
           notifications |-> showSuccess(state.notifications, call)]

RECURSIVE startCopies(_, _, _, _, _)
startCopies(state, calls, fullHTML, available, done) ==
  IF calls = 0 THEN state
  ELSE startCopies(startCopy(state, fullHTML, available, done), calls - 1,
                   fullHTML, available, done)

\* A click on an element button of the sidebar: its listener calls
\* addElement(type).  The buttons exist once render() has written them.
clickElementButton(type) ==
  /\ listeners.button = 1
  /\ addElement(type)

\* A click on a tab button: each of its listeners calls switchTab(tab).
clickTab(tabName) ==
  /\ UNCHANGED <<objects, arrays, elements, htmlTemplate>>
  /\ IF listeners.tab > 0 /\ tabName = "html" THEN updateHTMLOutput
     ELSE UNCHANGED htmlOutput
  /\ op' = [name |-> "clickTab", key |-> tabName, calls |-> listeners.tab]
  /\ UNCHANGED <<selectedElement, draggedElement,
                 elementCounter, clock, previewIframe, previewNodes,
                 previewEmptyState, drag, srcAttached, messages,
                 registry, copying, peer, listeners, validationErrorEl>>

\* A click on the Copy HTML button: each of its listeners calls copyHTML().
clickCopyHTML ==
  /\ Len(copyCalls) + listeners.copy <= MaxCopies
  /\ \E available \in BOOLEAN, done \in BOOLEAN :
       LET after == startCopies(
                      [copyCalls |-> copyCalls, copied |-> copied,
                       notifications |-> notifications],
                      listeners.copy,
                      generateFullHTML(generateHTML(elements, objects, arrays),
                                       htmlTemplate),
                      available, done)
       IN /\ copyCalls' = after.copyCalls
          /\ copied' = after.copied
          /\ notifications' = after.notifications
  /\ op' = [name |-> "clickCopyHTML", calls |-> listeners.copy]
  /\ UNCHANGED <<objects, arrays, elements, selectedElement, draggedElement,
                 elementCounter, clock, previewIframe, previewNodes,
                 previewEmptyState, htmlOutput, drag, srcAttached, messages,
                 htmlTemplate, registry, peer, listeners, validationErrorEl>>

NextListeners ==
  \/ render
  \/ \E type \in ExportTypeInputs : clickElementButton(type)
  \/ \E tabName \in TabInputs : clickTab(tabName)
  \/ clickCopyHTML
  \/ \E call \in 1..MaxCopies : writeTextResolves(call)
  \/ \E i \in 1..(MaxSeed + MaxAdds) : clickDelete(i)
  \/ deliverMessage

SpecListeners == Init /\ [][NextListeners]_vars

(***************************************************************************)
(* Editing the selected instance through the properties panel.             *)
(***************************************************************************)
\* The types added from the sidebar here, and edits that make a property
\* valid, blank or malformed.
PanelTypes == {"title", "image", "list"}

PanelUpdates ==
  {<<"text", "">>, <<"text", "Hello">>, <<"src", "not a url">>,
   <<"src", "">>, <<"src", getAllElementTypes.image.defaultProps.src>>}

NextPanel ==
  \/ \E type \in PanelTypes : addElement(type)
  \/ \E elementId \in IdInputs : selectElement(elementId)
  \/ \E update \in PanelUpdates : updateProperty(update[1], update[2])
  \/ removeListItem(0)
  \/ \E elementId \in IdInputs : deleteElement(elementId)

SpecPanel == Init /\ [][NextPanel]_vars

(***************************************************************************)
(* Copying while the document is edited: messages of the preview are       *)
(* delivered between the call of writeText and the settling of its promise.*)
(***************************************************************************)
NextCopyPending ==
  \/ \E type \in ExportTypeInputs : addElement(type)
  \/ \E i \in 1..(MaxSeed + MaxAdds) : clickDelete(i)
  \/ deliverMessage
  \/ copyHTML
  \/ \E call \in 1..MaxCopies : writeTextResolves(call)
  \/ \E call \in 1..MaxCopies : writeTextRejects(call)

SpecCopyPending == Init /\ [][NextCopyPending]_vars

(***************************************************************************)
(* Properties.                                                             *)
(***************************************************************************)
Count(s, x) == Cardinality({i \in DOMAIN s : s[i] = x})

IsPermutation(p, q) ==
  /\ Len(p) = Len(q)
  /\ \A x \in Range(p) \cup Range(q) : Count(p, x) = Count(q, x)

Distinct(s) == \A i, j \in DOMAIN s : i # j => s[i] # s[j]

ModelChanges == {"addElement", "updateProperty", "deleteElement",
                 "deleteMessage", "drop", "setElements"}

PreviewShowsDocument == PreviewIds = DocIds

C2_PreviewAfterEveryOperation ==
  (op.name \in ModelChanges /\ ~op.threw) => PreviewShowsDocument

\* C2 (amended): the same for addElement, updateProperty with an instance
\* selected, deleteElement, drop-reorder and setElements.
C2_PreviewAfterModelChange ==
  (/\ op.name \in ModelChanges
   /\ ~op.threw
   /\ op.name = "updateProperty" => selectedElement # Null)
  => PreviewShowsDocument

C2_Witness ==
  /\ op.name = "updateProperty"
  /\ selectedElement # Null
  /\ Len(elements) = 2
  /\ elements[1] > elements[2]
  /\ PreviewIds = DocIds

\* C3: whenever no drag gesture is active, the wrappers of the preview are
\* in document order.
C3_PreviewOrderWhenIdle ==
  (previewIframe /\ drag = "idle") => PreviewIds = DocIds

C5_ReorderPermutation ==
  [][(op'.name = "onDrop" /\ IsPermutation(op'.order, DocIds))
       => /\ IdsOf(elements', objects') = op'.order
          /\ objects' = objects
          /\ arrays' = arrays
          /\ onDropElements(elements', objects', op'.order) = elements'
          /\ Distinct(DocIds) => Range(elements') = Range(elements)]_vars

C5_Witness ==
  /\ op.name = "onDrop"
  /\ Len(elements) = 2
  /\ op.order = DocIds
  /\ elements[1] > elements[2]

\* C6: reorder of any id sequence yields only instances the document held,
\* in the order their ids occur in the sequence, ignores ids not found, and
\* creates or changes no instance.
C6_ReorderAnySequence ==
  [][op'.name = "onDrop"
       => /\ Range(elements') \subseteq Range(elements)
          /\ IdsOf(elements', objects') =
               SelectSeq(op'.order, LAMBDA id : id \in Range(DocIds))
          /\ objects' = objects
          /\ arrays' = arrays]_vars

C6_Witness ==
  /\ op.name = "onDrop"
  /\ Len(elements) = 1
  /\ Len(op.order) = 2
  /\ \E i \in DOMAIN op.order : op.order[i] \notin Range(DocIds)

\* C7: addElement appends one instance whose props equal the type's
\* defaultProps by value, and no later mutation of an instance changes the
\* registry's defaultProps or the props of another instance.
DefaultPropsValue(arrs) ==
  [t \in DOMAIN elementTypes |-> PropsValue(elementTypes[t].defaultProps, arrs)]

C7_AddClonesDefaultProps ==
  [][/\ (op'.name = "addElement" /\ ~op'.threw)
          => /\ Len(elements') = Len(elements) + 1
             /\ SubSeq(elements', 1, Len(elements)) = elements
             /\ PropsValue(objects'[elements'[Len(elements')]].props, arrays')
                  = DefaultPropsValue(arrays)[op'.key]
     /\ op'.name \in {"updateProperty", "updateListItem", "addListItem",
                      "removeListItem"}
          => /\ DefaultPropsValue(arrays') = DefaultPropsValue(arrays)
             /\ \A r \in DOMAIN objects :
                  r # selectedElement
                    => PropsValue(objects'[r].props, arrays')
                         = PropsValue(objects[r].props, arrays)]_vars

\* C8: addElement with a type key that is not registered throws and leaves
\* the element sequence, the selection and elementCounter as they were.
C8_UnknownTypeChangesNothing ==
  [][(op'.name = "addElement" /\ op'.key \notin DOMAIN elementTypes)
       => /\ op'.threw
          /\ elements' = elements
          /\ selectedElement' = selectedElement
          /\ elementCounter' = elementCounter]_vars

\* C9: after a successful addElement the selection is the instance just
\* created, the last of the document.
C9_AddSelectsNewInstance ==
  (op.name = "addElement" /\ ~op.threw)
    => (selectedElement = Len(objects)
        /\ selectedElement = elements[Len(elements)])

C12_UpdatePropertyFrame ==
  [][op'.name = "updateProperty"
       => /\ elements' = elements
          /\ selectedElement' = selectedElement
          /\ arrays' = arrays
          /\ IF selectedElement = Null
             THEN /\ ~op'.threw
                  /\ objects' = objects
                  /\ previewIframe' = previewIframe
                  /\ previewNodes' = previewNodes
                  /\ previewEmptyState' = previewEmptyState
             ELSE /\ Len(objects') = Len(objects)
                  /\ \A r \in DOMAIN objects :
                       r # selectedElement => objects'[r] = objects[r]
                  /\ objects'[selectedElement].id = objects[selectedElement].id
                  /\ objects'[selectedElement].type
                       = objects[selectedElement].type
                  /\ DOMAIN objects'[selectedElement].props
                       = DOMAIN objects[selectedElement].props \cup {op'.key}
                  /\ objects'[selectedElement].props[op'.key] \in PropertyValues
                  /\ \A k \in DOMAIN objects[selectedElement].props \ {op'.key} :
                       objects'[selectedElement].props[k]
                         = objects[selectedElement].props[k]]_vars

C12_Witness ==
  /\ op.name = "updateProperty"
  /\ selectedElement # Null
  /\ Len(elements) = 2
  /\ objects[selectedElement].props.text \in PropertyValues
  /\ objects[selectedElement].props.level = "1"
  /\ \E r \in Range(elements) : objects[r].props.text \notin PropertyValues

\* C13: a posted deleteElement message stays pending, at its place in the
\* queue, whatever is done before its delivery; it is eventually consumed by
\* the listener, and right after its consumption no instance of the document
\* carries its elementId.
C13_MessageEventuallyConsumed ==
  /\ [][IF op'.name = "deleteMessage"
        THEN /\ messages # <<>>
             /\ messages' = Tail(messages)
             /\ op'.id = Head(messages)
        ELSE /\ Len(messages') >= Len(messages)
             /\ SubSeq(messages', 1, Len(messages)) = messages]_vars
  /\ \A id \in IdInputs :
       (\E i \in DOMAIN messages : messages[i] = id)
         ~> (op.name = "deleteMessage" /\ op.id = id
             /\ id \notin Range(DocIds))

C13_Witness ==
  /\ op.name = "deleteMessage"
  /\ messages = <<>>
  /\ Len(objects) = 2
  /\ Len(elements) = 1
  /\ selectedElement # Null
  /\ \E r \in DOMAIN objects : r \notin Range(elements) /\ objects[r].id = op.id

C15_IdsStableAndUnique ==
  [][/\ \A r \in DOMAIN objects : objects'[r].id = objects[r].id
     /\ Distinct(IdsOf(elements', objects'))
     /\ (op'.name = "addElement" /\ ~op'.threw)
          => /\ elementCounter' = elementCounter + 1
             /\ \A r \in DOMAIN objects : objects[r].id # op'.id]_vars

Candidates(boxes) == {i \in DOMAIN boxes : ~boxes[i].dragging}

Negative(boxes, y) == {i \in Candidates(boxes) : Offset2(boxes[i], y) < 0}

Stacked == [i \in 1..3 |-> [top |-> (i - 1) * ElementPitch,
                            height |-> ElementHeight, dragging |-> FALSE]]

C17_TieKeepsFirst ==
  op.name = "getDragAfterElement"
    => \A j \in Negative(op.boxes, op.y) :
         Offset2(op.boxes[j], op.y) = Offset2(op.boxes[op.result], op.y)
           => op.result <= j

C17_Witness ==
  /\ op.name = "getDragAfterElement"
  /\ op.result = 2
  /\ Len(op.boxes) = 3
  /\ 3 \in Negative(op.boxes, op.y)
  /\ Offset2(op.boxes[3], op.y) = Offset2(op.boxes[2], op.y)
  /\ 1 \in Negative(op.boxes, op.y)

Keys(entries) == [i \in DOMAIN entries |-> entries[i].key]

ElementsKeys(field) ==
  IF field.present THEN Flatten([i \in DOMAIN field.value |->
                                   Keys(field.value[i])])
  ELSE <<>>

ScriptContents(field) ==
  IF field.present
  THEN Flatten([i \in DOMAIN field.value |->
                  IF Has(field.value[i], "content")
                  THEN Lookup(field.value[i], "content").text ELSE <<>>])
  ELSE <<>>

RawTexts(template) ==
  Spread(template.doctype)
    \o Keys(Spread(template.htmlAttributes))
    \o Keys(Spread(template.bodyAttributes))
    \o Spread(Chain(template.head, "customHead"))
    \o ElementsKeys(Chain(template.head, "meta"))
    \o ElementsKeys(Chain(template.head, "links"))
    \o ElementsKeys(Chain(template.head, "scripts"))
    \o ScriptContents(Chain(template.head, "scripts"))

OneOfEachTag(text) == \A tag \in StructuralTags : Count(text, tag) = 1

\* C20 (as stated): for every document of built-in blocks and every template
\* configuration, the getFullHTML output holds exactly one "<html", one
\* "<head>", one "</head>", one "<body" and one "</body>".
C20_OneOfEachTag ==
  op.name = "getFullHTML" => OneOfEachTag(op.result)

\* C20 (amended): the same for every template configuration whose doctype,
\* custom-head fragment, inline script contents and attribute names hold none
\* of these five tags.
C20_OneOfEachTagUnlessRaw ==
  (/\ op.name = "getFullHTML"
   /\ Range(RawTexts(op.template)) \cap StructuralTags = {})
    => OneOfEachTag(op.result)

C20_Witness ==
  /\ op.name = "getFullHTML"
  /\ Range(RawTexts(op.template)) \cap StructuralTags = {}
  /\ OneOfEachTag(op.result)
  /\ Len(elements) = 2
  /\ \E r \in Range(elements) :
       /\ objects[r].type = "title"
       /\ objects[r].props.text \in StructuralTags
  /\ op.template.head.present
  /\ op.template.head.value.title.present
  /\ op.template.head.value.meta.present
  /\ Len(op.template.head.value.meta.value) = MaxHeadEntries
  /\ op.template.head.value.scripts.present
  /\ Len(op.template.head.value.scripts.value) = MaxHeadEntries
  /\ op.template.head.value.customHead.present
  /\ op.template.bodyAttributes.present
  /\ Count(op.result, "&lt;body") = 3

\* Some instance of the document fails its validate().
SomeInvalid ==
  \E i \in DOMAIN elements : validate(objects[elements[i]], arrays) # <<>>

\* t occurs in s as a run of consecutive tokens
Contains(s, t) ==
  \E i \in 1..(Len(s) - Len(t) + 1) : SubSeq(s, i, i + Len(t) - 1) = t

\* The operations of the facade stay enabled.
OperationsEnabled ==
  /\ ENABLED getHTML
  /\ \A elementId \in IdInputs :
       ENABLED selectElement(elementId) /\ ENABLED deleteElement(elementId)
  /\ \A update \in ValidationUpdates :
       (/\ selectedElement # Null
        /\ update[1] \in DOMAIN objects[selectedElement].props)
         => ENABLED propertyInput(update[1], update[2])
  /\ elementCounter < MaxAdds =>
       \A type \in DOMAIN elementTypes : ENABLED addElement(type)
  /\ previewIframe => \A newOrder \in ReorderInputs : ENABLED reorder(newOrder)

\* The step just taken did what the operation does.
OperationSucceeded ==
  /\ op'.name \in {"addElement", "selectElement", "updateProperty",
                   "deleteElement", "onDrop"} => ~op'.threw
  /\ op'.name = "addElement" =>
       /\ DocIds' = Append(DocIds, op'.id)
       /\ objects'[elements'[Len(elements')]].type = op'.key
  /\ op'.name = "selectElement" /\ op'.present =>
       selectedElement' # Null /\ objects[selectedElement'].id = op'.id
  /\ op'.name = "updateProperty" /\ selectedElement # Null =>
       <<op'.key, objects'[selectedElement].props[op'.key]>>
         \in ValidationUpdates
  /\ op'.name = "deleteElement" => op'.id \notin Range(DocIds')
  /\ op'.name = "onDrop" =>
       DocIds' = SelectSeq(op'.order, LAMBDA id : id \in Range(DocIds))
  /\ op'.name \in {"getHTML", "getFullHTML"} =>
       \A i \in DOMAIN elements :
         Contains(op'.result, renderElement(objects[elements[i]], arrays))

TemplateMessages ==
  {"Invalid doctype format", "Title is too long (max 200 characters)",
   "Meta element must have at least one of: charset, name, property, or http-equiv",
   "Link element must have rel attribute",
   "Stylesheet link must have href attribute"}

\* C22: validateTemplate returns null or a message for every template, and
\* for every template, valid or not, getFullHTML returns the document
\* assembled from the merged configuration and the body.
C22_ValidationAdvisory ==
  /\ op.name = "validateTemplate" =>
       op.result \in {<<>>} \cup {<<m>> : m \in TemplateMessages}
  /\ op.name = "getFullHTML" =>
       op.result = html(MergedTemplate(op.template),
                        generateHTML(elements, objects, arrays))

C22_Witness ==
  /\ op.name = "getFullHTML"
  /\ validateTemplate(AsTemplate(MergedTemplate(op.template)))
       = <<"Invalid doctype format">>
  /\ Len(elements) > 0
  /\ Head(op.result) = "invalid"
  /\ Contains(op.result, <<"<body", ">", "\n">>
                           \o generateHTML(elements, objects, arrays)
                           \o <<"\n", "</body>">>)

\* The entry carries one of the attributes the rule names.
ClaimedMetaValid(meta) ==
  \E k \in {"charset", "name", "property", "http-equiv", "httpEquiv"} :
    Truthy(meta, k)

ClaimedLinkViolations(link) ==
  IF ~Truthy(link, "rel") THEN <<"Link element must have rel attribute">>
  ELSE IF Lookup(link, "rel") = Str(<<"stylesheet">>) /\ ~Truthy(link, "href")
  THEN <<"Stylesheet link must have href attribute">>
  ELSE <<>>

\* The messages of the violated rules in the order doctype, title length,
\* meta entries, link entries.
ClaimedViolations(template) ==
  LET title == Chain(template.head, "title")
      meta == Spread(Chain(template.head, "meta"))
      links == Spread(Chain(template.head, "links"))
  IN (IF /\ template.doctype.present
         /\ template.doctype.value \notin {<<>>, <<"<!doctype html>">>,
                                           <<"<!DOCTYPE html>">>}
      THEN <<"Invalid doctype format">> ELSE <<>>)
     \o (IF title.present /\ title.value = <<"a.repeat(201)">>
         THEN <<"Title is too long (max 200 characters)">> ELSE <<>>)
     \o Flatten([i \in DOMAIN meta |->
                   IF ClaimedMetaValid(meta[i]) THEN <<>>
                   ELSE <<"Meta element must have at least one of: charset, name, property, or http-equiv">>])
     \o Flatten([i \in DOMAIN links |-> ClaimedLinkViolations(links[i])])

\* C23: validateTemplate returns null exactly when no rule is violated and
\* otherwise the message of the first violated rule in the order doctype,
\* title length, meta entries in source order, link entries in source order;
\* a meta entry is valid when it carries charset, name, property or
\* http-equiv, a link entry needs rel and a stylesheet link also href.
C23_FirstViolatedRule ==
  op.name = "validateTemplate" =>
    op.result = IF ClaimedViolations(op.template) = <<>> THEN <<>>
                ELSE <<Head(ClaimedViolations(op.template))>>

\* A map as the set of its entries, and its keys.
EntrySet(entries) == {entries[i] : i \in DOMAIN entries}

\* The map holds, for every key of either map, the supplied value if the key
\* is supplied and the default value otherwise, each key once.
MergedKeyByKey(merged, default, supplied) ==
  /\ Distinct(Keys(merged))
  /\ Range(Keys(merged)) = Range(Keys(default)) \cup Range(Keys(supplied))
  /\ \A e \in EntrySet(merged) :
       e.value = IF Has(supplied, e.key) THEN Lookup(supplied, e.key)
                 ELSE Lookup(default, e.key)

\* The part of the merge on which the claim as stated and the code agree.
MergedMapsAndArrays(template, merged) ==
  LET default == getDefaultTemplate
      dhead == default.head.value
      meta == Chain(template.head, "meta")
      links == Chain(template.head, "links")
      scripts == Chain(template.head, "scripts")
  IN /\ MergedKeyByKey(merged.htmlAttributes, default.htmlAttributes.value,
                       Spread(template.htmlAttributes))
     /\ MergedKeyByKey(merged.bodyAttributes, default.bodyAttributes.value,
                       Spread(template.bodyAttributes))
     /\ merged.head.meta = IF meta.present THEN meta.value
                           ELSE dhead.meta.value
     /\ merged.head.links = IF links.present THEN links.value
                            ELSE dhead.links.value
     /\ merged.head.scripts = IF scripts.present THEN scripts.value
                              ELSE dhead.scripts.value

\* The merged template is what getFullHTML assembles the document from.
MergedOf(result, template, merged) ==
  /\ merged = MergedTemplate(template)
  /\ result = html(merged, generateHTML(elements, objects, arrays))

\* C24 (as stated): the document is assembled from the template merged over
\* the default: doctype, title and custom head are the supplied value, or the
\* default when not supplied; the attribute maps are merged key by key; meta,
\* links and scripts are the supplied array, or the default array when not
\* supplied.
C24_MergeOverDefaults ==
  op.name = "getFullHTML" =>
    \E merged \in {MergedTemplate(op.template)} :
      LET default == getDefaultTemplate
          dhead == default.head.value
          title == Chain(op.template.head, "title")
          customHead == Chain(op.template.head, "customHead")
      IN /\ MergedOf(op.result, op.template, merged)
         /\ MergedMapsAndArrays(op.template, merged)
         /\ merged.doctype = IF op.template.doctype.present
                             THEN op.template.doctype.value
                             ELSE default.doctype.value
         /\ merged.head.title = IF title.present THEN title.value
                                ELSE dhead.title.value
         /\ merged.head.customHead = IF customHead.present
                                     THEN customHead.value
                                     ELSE dhead.customHead.value

\* C24 (amended): as above, with doctype, title and custom head falling back
\* to the default also when they are supplied as the empty string.
C24_MergeOverDefaultsUnlessEmpty ==
  op.name = "getFullHTML" =>
    \E merged \in {MergedTemplate(op.template)} :
      LET default == getDefaultTemplate
          dhead == default.head.value
          title == Chain(op.template.head, "title")
          customHead == Chain(op.template.head, "customHead")
      IN /\ MergedOf(op.result, op.template, merged)
         /\ MergedMapsAndArrays(op.template, merged)
         /\ merged.doctype = IF /\ op.template.doctype.present
                                /\ op.template.doctype.value # <<>>
                             THEN op.template.doctype.value
                             ELSE default.doctype.value
         /\ merged.head.title = IF title.present /\ title.value # <<>>
                                THEN title.value ELSE dhead.title.value
         /\ merged.head.customHead = IF /\ customHead.present
                                        /\ customHead.value # <<>>
                                     THEN customHead.value
                                     ELSE dhead.customHead.value

C24_Witness ==
  /\ op.name = "getFullHTML"
  /\ op.template.head.present
  /\ op.template.head.value.title = Some(<<"Custom">>)
  /\ op.template.head.value.meta = None
  /\ op.template.head.value.links.present
  /\ op.template.head.value.links.value # <<>>
  /\ op.template.head.value.scripts = Some(<<>>)
  /\ op.template.htmlAttributes.present
  /\ Has(op.template.htmlAttributes.value, "lang")
  /\ ~op.template.doctype.present
  /\ Contains(op.result, <<"<html", " ", "lang", "=\"", "ja", "\"">>)
  /\ Contains(op.result, <<"  <title>", "Custom", "</title>", "\n",
                           "  <meta", " ", "charset", "=\"", "UTF-8", "\"",
                           ">">>)
  /\ Head(op.result) = "<!DOCTYPE html>"

HeadLines(document) ==
  LET lines == SplitLines(document, <<>>)
      start == FirstIndex({i \in DOMAIN lines : lines[i] = <<"<head>">>})
      end == FirstIndex({i \in DOMAIN lines :
                           i > start /\ lines[i] = <<"</head>">>})
  IN SelectSeq(SubSeq(lines, start + 1, end - 1), LAMBDA line : line # <<>>)

\* The group a line of the head belongs to, by its opening: 1 title, 2 meta,
\* 3 link, 4 script, 5 custom head.
Group(line) ==
  CASE Head(line) = "  <title>" -> 1
    [] Head(line) = "  <meta" -> 2
    [] Head(line) = "  <link" -> 3
    [] Head(line) \in {"  <script", "    ", "  </script>"} -> 4
    [] OTHER -> 5

LinesOfGroup(lines, group) == SelectSeq(lines, LAMBDA line : Group(line) = group)

\* C26: in every exported document the lines of the head come in the order
\* title, meta, link, script, custom head, and within the meta, link and
\* script groups the entries are in source order, followed by the lines of
\* the custom-head fragment in their order.
C26_HeadOrder ==
  op.name = "getFullHTML" =>
    LET lines == HeadLines(op.result)
        head == MergedTemplate(op.template).head
    IN /\ \A i, j \in DOMAIN lines :
            i < j => Group(lines[i]) <= Group(lines[j])
       /\ LinesOfGroup(lines, 1)
            = << <<"  <title>">> \o escapeHtml(head.title) \o <<"</title>">> >>
       /\ LinesOfGroup(lines, 2)
            = [k \in DOMAIN head.meta |->
                 <<"  <meta">> \o buildAttributes(head.meta[k]) \o <<">">>]
       /\ LinesOfGroup(lines, 3)
            = [k \in DOMAIN head.links |->
                 <<"  <link">> \o buildAttributes(head.links[k]) \o <<">">>]
       /\ LinesOfGroup(lines, 4)
            = Flatten([k \in DOMAIN head.scripts |->
                         ScriptParts(head.scripts[k])])
       /\ LinesOfGroup(lines, 5) = CustomLines(head.customHead)

C26_Witness ==
  /\ op.name = "getFullHTML"
  /\ op.template.head.present
  /\ op.template.head.value.title.present
  /\ op.template.head.value.meta.present
  /\ Len(op.template.head.value.meta.value) = MaxHeadEntries
  /\ op.template.head.value.links.present
  /\ Len(op.template.head.value.links.value) = MaxHeadEntries
  /\ op.template.head.value.scripts.present
  /\ Len(op.template.head.value.scripts.value) = MaxHeadEntries
  /\ op.template.head.value.scripts.value[1]
       # op.template.head.value.scripts.value[2]
  /\ op.template.head.value.customHead.present
  /\ Len(LinesOfGroup(HeadLines(op.result), 5)) = 2
  /\ [i \in DOMAIN HeadLines(op.result) |-> Group(HeadLines(op.result)[i])]
       \in {<<1, 2, 2, 3, 3, 4, 4, 4, 4, 5, 5>>,
            <<1, 2, 2, 3, 3, 4, 4, 4, 4, 4, 4, 5, 5>>}

\* The string values of the entries of an attribute map that buildAttributes
\* writes out.
Values(entries) ==
  Flatten([i \in DOMAIN entries |->
             IF entries[i].value.kind = "string" THEN entries[i].value.text
             ELSE <<>>])

\* The attribute values written for one script: type of an inline script,
\* every value of an external one.
ScriptValues(script) ==
  IF Truthy(script, "content")
  THEN IF Truthy(script, "type") THEN Lookup(script, "type").text ELSE <<>>
  ELSE IF Truthy(script, "src") THEN Values(script)
  ELSE <<>>

\* The strings of the merged configuration the claim lists as escaped: title
\* and the attribute values of html, body, meta, links and scripts.
EscapedTexts(merged) ==
  merged.head.title
    \o Values(merged.htmlAttributes)
    \o Values(merged.bodyAttributes)
    \o Flatten([i \in DOMAIN merged.head.meta |-> Values(merged.head.meta[i])])
    \o Flatten([i \in DOMAIN merged.head.links |->
                  Values(merged.head.links[i])])
    \o Flatten([i \in DOMAIN merged.head.scripts |->
                  ScriptValues(merged.head.scripts[i])])

\* The markup tokens that the escaping routine rewrites.
Special == StructuralTags \cup {"&"}

\* How often the fixed lines of the document hold the token.
Skeleton(token) == IF token \in StructuralTags THEN 1 ELSE 0

\* No block of the document holds a special token.
PlainBody ==
  \A i \in DOMAIN elements :
    Range(renderElement(objects[elements[i]], arrays)) \cap Special = {}

\* C27 (as stated): in the exported document a markup token occurs unescaped
\* only in the fixed lines and where the custom-head fragment has it, and
\* every such token of the title and of the attribute values occurs escaped.
C27_OnlyCustomHeadRaw ==
  (op.name = "getFullHTML" /\ PlainBody) =>
    LET merged == MergedTemplate(op.template)
    IN \A token \in Special :
         /\ Count(op.result, token)
              = Skeleton(token) + Count(merged.head.customHead, token)
         /\ Count(op.result, escapeToken(token))
              = Count(EscapedTexts(merged), token)

\* C27 (amended): a markup token occurs unescaped only in the fixed lines and
\* where the custom-head fragment, the doctype, the content of an inline
\* script or an attribute name has it, and every such token of the title and
\* of the attribute values occurs escaped.
C27_RawOnlyWhereUnescaped ==
  (op.name = "getFullHTML" /\ PlainBody) =>
    LET merged == MergedTemplate(op.template)
    IN \A token \in Special :
         /\ Count(op.result, token)
              = Skeleton(token) + Count(RawTexts(AsTemplate(merged)), token)
         /\ Count(op.result, escapeToken(token))
              = Count(EscapedTexts(merged), token)

C27_Witness ==
  /\ op.name = "getFullHTML"
  /\ PlainBody
  /\ Len(elements) > 0
  /\ op.template.head.present
  /\ op.template.head.value.customHead.present
  /\ "</head>" \in Range(op.template.head.value.customHead.value)
  /\ op.template.head.value.title.present
  /\ "<body" \in Range(op.template.head.value.title.value)
  /\ op.template.head.value.scripts.present
  /\ \E i \in DOMAIN op.template.head.value.scripts.value :
       /\ Truthy(op.template.head.value.scripts.value[i], "src")
       /\ ~Truthy(op.template.head.value.scripts.value[i], "content")
  /\ op.template.bodyAttributes.present
  /\ Range(Values(op.template.bodyAttributes.value)) \cap Special # {}
  /\ Count(op.result, "</head>") = 2
  /\ Count(op.result, "<body") = 1
  /\ Count(op.result, "&lt;body") = 2
  /\ Count(op.result, "&lt;head&gt;") >= 1

\* A step of either registerElementType.
Registers == op'.name \in {"registerElementType",
                           "ElementTypesHelper.registerElementType"}

\* C28: registerElementType(existing, key, descriptor) returns a new mapping
\* that is existing plus key -> descriptor, the descriptor replacing an entry
\* of the same name, and every mapping that existed before the call,
\* the one the builder held before its own registerElementType included,
\* has the same keys and descriptors after it; the builder then holds the
\* new mapping.
C28_RegisterReturnsNewMapping ==
  [][Registers =>
       LET existing == typeMaps[op'.existing]
           result == typeMaps'[op'.result]
       IN /\ op'.result \notin DOMAIN typeMaps
          /\ DOMAIN result = DOMAIN existing \cup {op'.key}
          /\ result[op'.key] = op'.definition
          /\ \A key \in DOMAIN existing \ {op'.key} :
               result[key] = existing[key]
          /\ \A captured \in DOMAIN typeMaps :
               /\ DOMAIN typeMaps'[captured] = DOMAIN typeMaps[captured]
               /\ typeMaps'[captured] = typeMaps[captured]
          /\ (op'.name = "registerElementType"
                => /\ op'.existing = thisElementTypes
                   /\ thisElementTypes' = op'.result)]_vars

\* The builder replaced its title descriptor and then registered a new key:
\* the mapping it held first still has the four built-in entries.
C28_Witness ==
  /\ op.name = "registerElementType"
  /\ op.key = "custom"
  /\ Len(typeMaps) = 3
  /\ typeMaps[1] = getAllElementTypes
  /\ typeMaps[2].title = CustomType
  /\ op.existing = 2
  /\ thisElementTypes = 3
  /\ DOMAIN typeMaps[3] = DOMAIN getAllElementTypes \cup {"custom"}
  /\ typeMaps[3].title = CustomType

\* C29: in every state in which the document has zero instances, right after
\* construction and render() with no initial content and after the last
\* instance was deleted included, the preview surface shows the empty-state
\* placeholder rather than an empty container.
C29_EmptyStatePlaceholder ==
  (op.name # "new" /\ Len(elements) = 0) => previewEmptyState

\* The notifications shown for a copyHTML call.
ShownFor(call) ==
  {i \in DOMAIN notifications : notifications[i].call = call}

\* The mechanisms the full document of a copyHTML call was handed to.
HandedTo(call) ==
  {copied[i].mechanism : i \in {j \in DOMAIN copied :
                                  /\ copied[j].call = call
                                  /\ copied[j].text = copyCalls[call].html}}

StringItems(props) ==
  IF props.items.isArray
  THEN {props.items.items[i].text :
          i \in {j \in DOMAIN props.items.items :
                   props.items.items[j].kind = "string"}}
  ELSE {}

\* The text is empty or holds whitespace only.
BlankText(text) == \A i \in DOMAIN text : text[i] \in Whitespace

\* C31: list validation applies its rules in a fixed order: a list with no
\* string item yields the "must have at least one item" message, otherwise
\* a list with a blank or whitespace-only item yields the "items cannot be
\* empty" message, and otherwise validate returns null.
C31_ListValidationOrder ==
  op.name = "validate" =>
    op.result =
      IF StringItems(op.props) = {}
      THEN <<"List must have at least one item">>
      ELSE IF \E text \in StringItems(op.props) : BlankText(text)
      THEN <<"List items cannot be empty">>
      ELSE <<>>

\* A list whose second item is whitespace only, next to a filled item and a
\* number, was validated.
C31_Witness ==
  /\ op.name = "validate"
  /\ op.props.items.isArray
  /\ op.props.items.items
       = <<Str(<<"Item 1">>), Str(<<" ", " ", " ">>), Number(<<"0">>)>>
  /\ op.result = <<"List items cannot be empty">>

\* The instances of the document that do not carry the id, in their order.
Without(id) == SelectSeq(elements, LAMBDA r : objects[r].id # id)

\* C32: however the steps of a drag gesture (dragstart, dragover, drop,
\* dragend) interleave with the delivery of deleteElement messages and the
\* re-renders these trigger, the document after the gesture holds exactly
\* the instances that were not deleted, each once and with unchanged props:
\* dragstart, dragover and dragend leave the document alone, a delivery
\* removes the instances carrying its id and nothing else, and a drop keeps
\* every instance, each exactly once.
C32_GestureKeepsInstances ==
  [][/\ op'.name \in {"dragstart", "dragover", "dragend"}
          => elements' = elements
     /\ op'.name = "deleteMessage" => elements' = Without(op'.id)
     /\ op'.name = "drop"
          => /\ Range(elements') = Range(elements)
             /\ Len(elements') = Len(elements)
     /\ op'.name \in {"dragstart", "dragover", "dragend", "deleteMessage",
                      "drop"}
          => (objects' = objects /\ arrays' = arrays)]_vars

\* C33: with two builders mounted on one page, a delete gesture in the
\* preview of one never removes an instance from the document of the other
\* and never changes the other's selection, even when both documents hold
\* an instance with the same id.
C33_DeleteStaysInItsBuilder ==
  [][op'.name \in {"clickDelete", "deleteMessage"}
       => /\ peerElements' = peerElements
          /\ peerSelectedElement' = peerSelectedElement]_vars

\* C34: draggedElement holds the id of the dragged instance from dragstart
\* until the gesture ends, and is null in every state in which no drag
\* gesture is active, after a completed drop and after the dragged instance
\* was deleted or re-rendered in the middle of the drag included.
C34_DraggedElementTracksGesture ==
  /\ [](drag = "idle" => draggedElement = Null)
  /\ [][op'.name = "dragstart" => draggedElement' = op'.id]_vars
  /\ [][(drag # "idle" /\ drag' # "idle")
          => draggedElement' = draggedElement]_vars

\* What getFullHTML would return for the document and the template.
FullHTML ==
  generateFullHTML(generateHTML(elements, objects, arrays), htmlTemplate)

\* C35: after every public operation that changes what getFullHTML would
\* return (addElement, updateProperty, the list-item edits, deleteElement,
\* the reorder by drop, setElements, updateHTMLTemplate,
\* registerElementType), the text in the HTML panel equals getFullHTML() of
\* the current document and template.
C35_OutputPanelFollowsExport ==
  [][FullHTML' # FullHTML => HtmlOutputValue' = FullHTML']_vars

\* C36: however often render() and updatePreview ran, one gesture invokes
\* its operation exactly once: a click on an element button calls addElement
\* once, a click on a tab button calls switchTab once, a click on Copy HTML
\* calls copyHTML once, and a click in the preview posts one message.
C36_OneGestureOneCall ==
  [][listeners.button = 1
       => /\ op'.name = "addElement"
               => Len(elements') = Len(elements) + 1
          /\ op'.name = "clickTab" => op'.calls = 1
          /\ op'.name = "clickCopyHTML"
               => /\ op'.calls = 1
                  /\ Len(copyCalls') = Len(copyCalls) + 1
          /\ op'.name = "clickDelete"
               => Len(messages') = Len(messages) + 1]_vars

C38_CopiesExportAtInvocation ==
  [][/\ op'.name = "copyHTML"
          => copyCalls'[op'.call].html = FullHTML
     /\ \A call \in DOMAIN copyCalls :
          copyCalls'[call].html = copyCalls[call].html
     /\ \A i \in DOMAIN copied' :
          copied'[i].text = copyCalls'[copied'[i].call].html]_vars

\* The write of a call was rejected after a delete message changed the
\* document: the textarea of the fallback holds the export of the call,
\* which is no longer the current export.
C38_Witness ==
  /\ op.name = "writeTextRejects"
  /\ \E i \in DOMAIN copied :
       /\ copied[i].call = op.call
       /\ copied[i].mechanism = "execCommand"
       /\ copied[i].text = copyCalls[op.call].html
       /\ copied[i].text # FullHTML
  /\ \E i \in DOMAIN copied :
       /\ copied[i].call = op.call
       /\ copied[i].mechanism = "clipboard.writeText"
       /\ copied[i].text # FullHTML

====
